---------------------------- MODULE Spec2Model ----------------------------
(***************************************************************************)
(* Model of the mentoring-report generator (katsphil/claudementor).        *)
(*                                                                         *)
(* Text (CLI stdout, file contents) is a sequence of lexical tokens:       *)
(*   "open"  the characters ```json       "fence"  the characters ```      *)
(*   "lb"    {                            "rb"     }                       *)
(*   "arr"   a non-empty JSON array such as [1]                            *)
(*   "txt"   prose that holds none of the above                            *)
(*   "n7" "n8"   the member  "number": 7  /  "number": 8                   *)
(*   "mD" "mN"   the member  "metadata": {...}  /  "metadata": null        *)
(*   "mP"        the member  "metadata": {"afm": ...}, no company_name     *)
(*   "v0" "v1" "v2" "vN"  the member "video_recommendations": [] /         *)
(*               a non-empty list / another non-empty list / null          *)
(* A JSON value is a record with a field kind.                             *)
(***************************************************************************)
EXTENDS Integers, Sequences, FiniteSets, Bags, TLC

VARIABLES
    \* ---- generate_section_via_agent (one call) ----
    g_pc,            \* "call" | "cli" | "returned"
    section_num,     \* the section the call is for
    files,           \* output_dir: file name -> text, or Absent
    result,          \* what subprocess.run gave: exception, returncode, stdout
    files0,          \* output_dir as it was when subprocess.run returned
    g_ret,           \* the value the call returned
    g_wrote,         \* the CLI of this call wrote the section file
    \* ---- compile_final_report (one call) ----
    c_pc,            \* "call" | "returned"
    c_sections,      \* the argument sections
    c_company_info,  \* the argument company_info
    c_out,           \* [raised, report, written]
    \* ---- main ----
    m_pc,            \* "phase2" | "phase3" | "section1" | "sections" |
                     \* "compile" | "render" | "summary" | "done" |
                     \* "done_partial" | "crashed"
    m_section_num,   \* the loop variable of "for section_num in range(2, 12)"
    sections,        \* main's list of generated sections
    company_info,    \* main's company_info
    attempted,       \* the section numbers generate_section_via_agent was
                     \* called for, in call order
    last_cli,        \* how the CLI run of the latest call ended
    m_report,        \* what compile_final_report gave: [called, raised, ...]
    m_classification, \* how the classification CLI ended, a mapping returned
    afm_for_directory,
    section_1,       \* main's section_1
    calls,           \* the calls made, in order: [to, info] with to the
                     \* section number (0: compile_final_report) and
                     \* info the company_info passed
    html_success,    \* "unset" | "true" | "false"
    m_panel,         \* the summary panel printed: "none" | "success" |
                     \* "partial"
    m_error,         \* the exception that ended main, or "none"
    \* ---- classify_files_with_llm (one call) ----
    cl_pc,           \* "call" | "loop" | "returned" | "raised"
    cl_files,        \* the argument files: a list of paths <<directory, name>>
    cl_invoked,      \* subprocess.run was called
    cl_response,     \* result["classifications"], as far as the loop has got
    section_mapping, \* section number -> list of paths
    \* ---- transcribe_video (one call) ----
    v_pc,            \* "call" | "chunking" | "transcribing" | "finally" |
                     \* "returned" | "raised"
    v_large,         \* file_size > max_size
    temp_dir,        \* the chunk directory: [exists, files]
    v_created,       \* the call created (or took over) the chunk directory
    chunk_count,     \* chunk_video's chunk_count
    chunk_files,     \* the chunk files made so far
    transcripts,     \* the chunk transcripts so far
    v_i,             \* the loop index of "for i, chunk_file in enumerate(...)"
    v_failed,        \* an exception is propagating
    \* ---- GraphSharePointClient.download_folder_files (one call) ----
    sp_pc,           \* "call" | "running" | "returned" | "raised"
    sp_drive,        \* the drive: folder id -> list of children
    sp_page_size,    \* items the Graph API puts in one response page
    sp_recursive,    \* the argument recursive
    sp_stack,        \* the active download_folder_files frames
    sp_attempted,    \* files download_file was called for
    sp_listings,     \* what each get_folder_items call returned
    sp_ret,          \* the list returned by the outermost call
    \* ---- discover_files (one call) ----
    d_pc,            \* "call" | "returned"
    d_tree,          \* what lies below the directory: a list of entries
    d_ext,           \* index of the loop "for ext in extensions"
    d_files,         \* the list files, as a bag of paths
    d_ret,           \* the list returned
    \* ---- render_report (one call) ----
    r_pc,            \* "call" | "loaded" | "returned" | "raised"
    r_json,          \* the file json_path
    r_template,      \* the file template_path exists
    r_logo,          \* the bytes of the file logo_path, or Absent
    r_now,           \* datetime.now().strftime("%d/%m/%Y")
    r_data,          \* the variable data
    r_html,          \* the file output_path: [exists, context]
    \* ---- main, command line ----
    a_pc,            \* "parse" | "mode" | "running" | "exit"
    argv,            \* sys.argv[1:]
    a_i,             \* the loop variable i
    afm_mode,
    afm_number,
    directory_path,
    a_prompted,      \* input() was called
    a_mode,          \* "none" | "sharepoint" | "direct"
    a_target,        \* the AFM searched for, or the directory path used
    a_status,        \* the exit status of sys.exit, 0 while there was none
    \* ---- extract_afm (one call) ----
    e_pc,            \* "call" | "returned"
    e_directory,     \* the argument directory: [name, parent]
    e_provided,      \* the argument provided_afm
    e_ret,           \* the value returned
    \* ---- main, lines 498-546: the working directory ----
    w_pc,            \* "start" | "copy" | "remap" | "write" | "written" |
                     \* "raised"
    w_afm_mode,      \* main's afm_mode
    w_directory,     \* main's directory, a path
    w_files,         \* main's files, a list of paths
    w_classified,    \* file_classification as the classifier returned it
    w_file_classification, \* main's file_classification
    w_output_dir,    \* main's output_dir
    w_i,             \* index of the loop "for src_file in files"
    w_disk,          \* the files there are in output_dir
    w_mapping,       \* section_file_mapping.json: section -> relative paths
    \* ---- preprocess_document (one call) ----
    p_pc,            \* "call" | "try" | "returned" | "raised"
    p_suffix,        \* file_path.suffix
    p_exists,        \* file_path.stat() succeeds
    p_readable,      \* load_workbook(file_path) succeeds
    p_rows,          \* the sheet's rows, as iter_rows(values_only=True) gives them
    p_full_text,     \* the local full_text
    p_result,        \* the dict result: key -> value
    \* ---- extract_excel_data (one sheet) ----
    x_pc,            \* "rows" | "returned"
    x_row,           \* the rows iter_rows has given so far
    x_data_rows,     \* the list data_rows
    x_sheet_info     \* the dict sheet_info: table_data, has_more_rows

genVars == <<g_pc, section_num, files, result, files0, g_ret, g_wrote>>

cmpVars == <<c_pc, c_sections, c_company_info, c_out>>

mainVars == <<m_pc, m_section_num, sections, company_info, attempted,
              last_cli, m_report, m_classification, afm_for_directory,
              section_1, calls, html_success, m_panel, m_error>>

clsVars == <<cl_pc, cl_files, cl_invoked, cl_response, section_mapping>>

vidVars == <<v_pc, v_large, temp_dir, v_created, chunk_count, chunk_files,
             transcripts, v_i, v_failed>>

spVars == <<sp_pc, sp_drive, sp_page_size, sp_recursive, sp_stack, sp_attempted,
            sp_listings, sp_ret>>

discVars == <<d_pc, d_tree, d_ext, d_files, d_ret>>

rndVars == <<r_pc, r_json, r_template, r_logo, r_now, r_data, r_html>>

argVars ==
    <<a_pc,
      argv,
      a_i,
      afm_mode,
      afm_number,
      directory_path,
      a_prompted,
      a_mode,
      a_target,
      a_status>>

afmVars == <<e_pc, e_directory, e_provided, e_ret>>

wdVars ==
    <<w_pc,
      w_afm_mode,
      w_directory,
      w_files,
      w_classified,
      w_file_classification,
      w_output_dir,
      w_i,
      w_disk,
      w_mapping>>

preVars ==
    <<p_pc,
      p_suffix,
      p_exists,
      p_readable,
      p_rows,
      p_full_text,
      p_result>>

xlVars == <<x_pc, x_row, x_data_rows, x_sheet_info>>

vars ==
    <<genVars, cmpVars, mainVars, clsVars, vidVars, spVars, discVars,
      rndVars, argVars, afmVars, wdVars, preVars, xlVars>>

notGen ==
    <<cmpVars, mainVars, clsVars, vidVars, spVars, discVars, rndVars,
      argVars, afmVars, wdVars, preVars, xlVars>>
notCompile ==
    <<genVars, mainVars, clsVars, vidVars, spVars, discVars, rndVars,
      argVars, afmVars, wdVars, preVars, xlVars>>
notMain ==
    <<genVars, cmpVars, clsVars, vidVars, spVars, discVars, rndVars, argVars,
      afmVars, wdVars, preVars, xlVars>>
notClassify ==
    <<genVars, cmpVars, mainVars, vidVars, spVars, discVars, rndVars,
      argVars, afmVars, wdVars, preVars, xlVars>>
notVideo ==
    <<genVars, cmpVars, mainVars, clsVars, spVars, discVars, rndVars,
      argVars, afmVars, wdVars, preVars, xlVars>>
notSharePoint ==
    <<genVars, cmpVars, mainVars, clsVars, vidVars, discVars, rndVars,
      argVars, afmVars, wdVars, preVars, xlVars>>
notDiscover ==
    <<genVars, cmpVars, mainVars, clsVars, vidVars, spVars, rndVars, argVars,
      afmVars, wdVars, preVars, xlVars>>
notRender ==
    <<genVars, cmpVars, mainVars, clsVars, vidVars, spVars, discVars,
      argVars, afmVars, wdVars, preVars, xlVars>>
notArgs ==
    <<genVars, cmpVars, mainVars, clsVars, vidVars, spVars, discVars,
      rndVars, afmVars, wdVars, preVars, xlVars>>
notAfm ==
    <<genVars, cmpVars, mainVars, clsVars, vidVars, spVars, discVars,
      rndVars, argVars, wdVars, preVars, xlVars>>
notWorkdir ==
    <<genVars, cmpVars, mainVars, clsVars, vidVars, spVars, discVars,
      rndVars, argVars, afmVars, preVars, xlVars>>
notPreprocess ==
    <<genVars, cmpVars, mainVars, clsVars, vidVars, spVars, discVars,
      rndVars, argVars, afmVars, wdVars, xlVars>>
notExcel ==
    <<genVars, cmpVars, mainVars, clsVars, vidVars, spVars, discVars,
      rndVars, argVars, afmVars, wdVars, preVars>>

---------------------------------------------------------------------------
\* JSON values and text

NumSections == 11

Absent == <<"<absent>">>

NoneV == [kind |-> "None"]

MemberTokens == {"n7", "n8", "mD", "mN", "mP", "v0", "v1", "v2", "vN"}

KeyOf(tok) ==
    IF tok \in {"n7", "n8"} THEN "number"
    ELSE IF tok \in {"mD", "mN", "mP"} THEN "metadata"
    ELSE "video_recommendations"

\* dict construction by json.loads: a repeated key keeps its first position
\* and takes the last value
RECURSIVE PutItem(_, _)
PutItem(items, tok) ==
    IF items = <<>> THEN <<tok>>
    ELSE IF KeyOf(Head(items)) = KeyOf(tok) THEN <<tok>> \o Tail(items)
    ELSE <<Head(items)>> \o PutItem(Tail(items), tok)

RECURSIVE BuildItems(_)
BuildItems(toks) ==
    IF toks = <<>> THEN <<>>
    ELSE PutItem(BuildItems(SubSeq(toks, 1, Len(toks) - 1)), toks[Len(toks)])

\* json.loads / json.load: the parsed value, or NoneV standing for the
\* JSONDecodeError (callers turn the error into their own failure path)
JsonLoads(text) ==
    IF text = <<"arr">> THEN [kind |-> "list"]
    ELSE IF /\ Len(text) >= 2
            /\ text[1] = "lb"
            /\ text[Len(text)] = "rb"
            /\ \A i \in 2..(Len(text) - 1) : text[i] \in MemberTokens
         THEN [kind |-> "dict", items |-> BuildItems(SubSeq(text, 2, Len(text) - 1))]
         ELSE NoneV

\* json.dump
JsonDump(v) ==
    IF v.kind = "list" THEN <<"arr">>
    ELSE <<"lb">> \o v.items \o <<"rb">>

\* dict.get(key): the member token, or "absent"
Get(d, key) ==
    IF \E i \in 1..Len(d.items) : KeyOf(d.items[i]) = key
    THEN d.items[CHOOSE i \in 1..Len(d.items) : KeyOf(d.items[i]) = key]
    ELSE "absent"

\* Python truthiness of a value returned by generate_section_via_agent
Truthy(v) ==
    /\ v.kind # "None"
    /\ (v.kind = "dict" => v.items # <<>>)

---------------------------------------------------------------------------
\* generate_section_via_agent

prompt_file(n) == <<"prompt", n>>
section_file(n) == <<"generated", n>>
debug_file(n) == <<"debug", n>>

FileNames(n) == {prompt_file(n), section_file(n), debug_file(n)}

NoMatch == [matched |-> FALSE, str |-> <<>>]

\* position of the first ``` at or after j (the opening ```json starts with
\* one), 0 when there is none
RECURSIVE NextFence(_, _)
NextFence(out, j) ==
    IF j > Len(out) THEN 0
    ELSE IF out[j] \in {"open", "fence"} THEN j
    ELSE NextFence(out, j + 1)

\* re.search(r'```json\s*(.*?)\s*```', output_text, re.DOTALL): group(1)
RECURSIVE FencedSearchFrom(_, _)
FencedSearchFrom(out, i) ==
    IF i > Len(out) THEN NoMatch
    ELSE IF out[i] = "open" /\ NextFence(out, i + 1) # 0
         THEN [matched |-> TRUE,
               str |-> SubSeq(out, i + 1, NextFence(out, i + 1) - 1)]
         ELSE FencedSearchFrom(out, i + 1)

FencedSearch(out) == FencedSearchFrom(out, 1)

\* position of the last } of the text, 0 when there is none
RECURSIVE LastRb(_, _)
LastRb(out, j) ==
    IF j = 0 THEN 0
    ELSE IF out[j] = "rb" THEN j
    ELSE LastRb(out, j - 1)

\* re.search(r'\{.*"number".*\}', output_text, re.DOTALL): group(0); both
\* .* are greedy, so the match runs from the first usable { to the last }
RECURSIVE RawSearchFrom(_, _)
RawSearchFrom(out, i) ==
    IF i > Len(out) THEN NoMatch
    ELSE IF /\ out[i] = "lb"
            /\ \E k \in (i + 1)..(LastRb(out, Len(out)) - 1) :
                   KeyOf(out[k]) = "number" /\ out[k] \in MemberTokens
         THEN [matched |-> TRUE, str |-> SubSeq(out, i, LastRb(out, Len(out)))]
         ELSE RawSearchFrom(out, i + 1)

RawSearch(out) == RawSearchFrom(out, 1)

\* mutant: the raw brace search is tried before the fenced block
ExtractJson_RawFirst(out) ==
    IF RawSearch(out).matched THEN RawSearch(out)
    ELSE FencedSearch(out)

\* lines 165-183: the JSON text taken from stdout
ExtractJson(out) ==
    IF FencedSearch(out).matched THEN FencedSearch(out)
    ELSE RawSearch(out)

\* mutant: the JSONDecodeError branch returns without the debug dump
AfterCli_NoDumpOnDecodeError(n, res, fs) ==
    IF res.exc THEN [ret |-> NoneV, files |-> fs]
    ELSE IF res.returncode # 0 THEN [ret |-> NoneV, files |-> fs]
    ELSE IF fs[section_file(n)] # Absent
         THEN [ret |-> JsonLoads(fs[section_file(n)]), files |-> fs]
    ELSE LET m == ExtractJson(res.stdout) IN
         IF ~m.matched
         THEN [ret |-> NoneV,
               files |-> [fs EXCEPT ![debug_file(n)] = res.stdout]]
         ELSE IF JsonLoads(m.str) = NoneV
         THEN [ret |-> NoneV, files |-> fs]
         ELSE [ret |-> JsonLoads(m.str),
               files |-> [fs EXCEPT ![section_file(n)] = JsonDump(JsonLoads(m.str))]]

\* lines 147-207: everything after subprocess.run, as [ret, files]
AfterCli(n, res, fs) ==
    IF res.exc THEN [ret |-> NoneV, files |-> fs]
    ELSE IF res.returncode # 0 THEN [ret |-> NoneV, files |-> fs]
    ELSE IF fs[section_file(n)] # Absent
         THEN [ret |-> JsonLoads(fs[section_file(n)]), files |-> fs]
    ELSE LET m == ExtractJson(res.stdout) IN
         IF ~m.matched
         THEN [ret |-> NoneV,
               files |-> [fs EXCEPT ![debug_file(n)] = res.stdout]]
         ELSE IF JsonLoads(m.str) = NoneV
         THEN [ret |-> NoneV,
               files |-> [fs EXCEPT ![debug_file(n)] = m.str]]
         ELSE [ret |-> JsonLoads(m.str),
               files |-> [fs EXCEPT ![section_file(n)] = JsonDump(JsonLoads(m.str))]]

---------------------------------------------------------------------------
\* compile_final_report

\* the value of a "video_recommendations" member
VideoValue(tok) ==
    IF tok = "v1" THEN [kind |-> "list", items |-> <<"video_a">>]
    ELSE IF tok = "v2" THEN [kind |-> "list", items |-> <<"video_b", "video_c">>]
    ELSE IF tok = "vN" THEN NoneV
    ELSE [kind |-> "list", items |-> <<>>]      \* "v0", and .get's default []

\* lines 251-292: the five fixed recommendations
DefaultVideos ==
    [kind |-> "list",
     items |-> <<"example1", "example2", "example3", "example4", "example5">>]

\* Python truthiness of a video_recommendations value
VideoTruthy(v) == v.kind = "list" /\ v.items # <<>>

\* lines 243-247: the loop over sections; [raised, value]. A truthy entry
\* that is no dict has no .get: AttributeError
RECURSIVE ExtractVideos(_)
ExtractVideos(secs) ==
    IF secs = <<>> THEN [raised |-> FALSE, value |-> VideoValue("v0")]
    ELSE IF ~Truthy(Head(secs)) THEN ExtractVideos(Tail(secs))
    ELSE IF Head(secs).kind # "dict" THEN [raised |-> TRUE, value |-> NoneV]
    ELSE IF Get(Head(secs), "number") = "n8"
         THEN [raised |-> FALSE,
               value |-> VideoValue(Get(Head(secs), "video_recommendations"))]
    ELSE ExtractVideos(Tail(secs))

IsNotNone(s) == s # NoneV

\* mutant: the sections are filtered by truthiness instead of "is not None"
KeptSections_Truthy(secs) == SelectSeq(secs, Truthy)

\* line 301
KeptSections(secs) == SelectSeq(secs, IsNotNone)

\* mutant: the defaults are used only when Section 8 is missing altogether
ChooseVideos_NoFallbackOnEmpty(secs) ==
    IF \E i \in 1..Len(secs) :
           /\ Truthy(secs[i]) /\ secs[i].kind = "dict"
           /\ Get(secs[i], "number") = "n8"
    THEN ExtractVideos(secs).value
    ELSE DefaultVideos

\* lines 249-292
ChooseVideos(secs) ==
    IF VideoTruthy(ExtractVideos(secs).value) THEN ExtractVideos(secs).value
    ELSE DefaultVideos

NoReport == [kind |-> "None"]

\* company_info.get(key, default); a key the dict lacks holds Missing
Missing == "<missing>"

CiGet(ci, key, default) == IF ci[key] = Missing THEN default ELSE ci[key]

\* json.dump(report, f): the text of mentoring_report_complete.json
DumpReport(report) == [kind |-> "json", of |-> report]

\* lines 210-330: [raised, report, written]; written is the text of the
\* output JSON file (Absent when the function raised before writing it)
CompileFinalReport(secs, ci) ==
    IF ExtractVideos(secs).raised
    THEN [raised |-> TRUE, report |-> NoReport, written |-> NoReport]
    ELSE LET report == [kind |-> "report",
                        company_name |-> CiGet(ci, "company_name", ""),
                        afm |-> CiGet(ci, "afm", ""),
                        kad |-> CiGet(ci, "kad", ""),
                        website |-> CiGet(ci, "website", ""),
                        sections |-> KeptSections(secs),
                        video_recommendations |-> ChooseVideos(secs)]
         IN [raised |-> FALSE, report |-> report, written |-> DumpReport(report)]

---------------------------------------------------------------------------
\* classify_files_with_llm

\* Path.name of a path <<directory, name>>
NameOf(path) == path[2]

\* line 164: {f.name: f for f in files}; of two files with one name the
\* later one stays
FilenameToPath(fs) ==
    [n \in {NameOf(fs[i]) : i \in 1..Len(fs)} |->
        fs[CHOOSE i \in 1..Len(fs) :
              /\ NameOf(fs[i]) = n
              /\ \A j \in (i + 1)..Len(fs) : NameOf(fs[j]) # n]]

\* The response text in tokens: "doc" is the JSON document, "open" and
\* "fence" as above, "txt" prose
\* position of the first token of text at or after i that starts with ```
RECURSIVE FindFence(_, _)
FindFence(text, i) ==
    IF i > Len(text) THEN 0
    ELSE IF text[i] \in {"open", "fence"} THEN i
    ELSE FindFence(text, i + 1)

RECURSIVE FindOpen(_, _)
FindOpen(text, i) ==
    IF i > Len(text) THEN 0
    ELSE IF text[i] = "open" THEN i
    ELSE FindOpen(text, i + 1)

\* text[json_start:json_end]: with no closing fence find gives -1 and the
\* slice loses the last character of the text (the last token is cut)
SliceAfter(text, i) ==
    IF FindFence(text, i + 1) # 0
    THEN SubSeq(text, i + 1, FindFence(text, i + 1) - 1)
    ELSE IF i < Len(text)
         THEN SubSeq(text, i + 1, Len(text) - 1) \o <<"cut">>
         ELSE <<>>

\* lines 149-156
StripFences(text) ==
    IF FindOpen(text, 1) # 0 THEN SliceAfter(text, FindOpen(text, 1))
    ELSE IF FindFence(text, 1) # 0 THEN SliceAfter(text, FindFence(text, 1))
    ELSE text

\* line 158: json.loads succeeds when what is left is the document alone
ResponseParses(text) == StripFences(text) = <<"doc">>

\* mutant: a section number is used without the range check (as with a
\* defaultdict, the key is created)
AddToSection_NoRangeCheck(mapping, section, path) ==
    IF section \in DOMAIN mapping
    THEN [mapping EXCEPT ![section] = Append(@, path)]
    ELSE [k \in DOMAIN mapping \cup {section} |->
             IF k = section THEN <<path>> ELSE mapping[k]]

\* lines 173-174
AddToSection(mapping, section, path) ==
    IF 1 <= section /\ section <= NumSections
    THEN [mapping EXCEPT ![section] = Append(@, path)]
    ELSE mapping

\* lines 172-174: the loop over an entry's section numbers
RECURSIVE AddToSections(_, _, _)
AddToSections(mapping, secs, path) ==
    IF secs = <<>> THEN mapping
    ELSE AddToSections(AddToSection(mapping, Head(secs), path), Tail(secs), path)

\* mutant: a filename that is no input file is looked up anyway and taken
\* for the first file
ApplyClassification_AnyName(mapping, fs, entry) ==
    IF entry.filename \in DOMAIN FilenameToPath(fs)
    THEN AddToSections(mapping, entry.sections, FilenameToPath(fs)[entry.filename])
    ELSE AddToSections(mapping, entry.sections, fs[1])

\* lines 167-174: one classification entry
ApplyClassification(mapping, fs, entry) ==
    IF entry.filename \in DOMAIN FilenameToPath(fs)
    THEN AddToSections(mapping, entry.sections, FilenameToPath(fs)[entry.filename])
    ELSE mapping

---------------------------------------------------------------------------
\* ---- one call of generate_section_via_agent, as a state machine ----

MaxOut == 5

GenTokens == {"open", "fence", "lb", "rb", "n8", "txt"}

\* the texts stdout can hold
Stdouts == UNION {[1..k -> GenTokens] : k \in 0..MaxOut}

\* what the CLI, told to save section_<N>_generated.json, may leave there
CliFileTexts == {<<"lb", "n8", "v1", "rb">>, <<"lb", "rb">>, <<"txt">>}

\* a section file left in output_dir before the call
OldFileTexts == {<<"lb", "n7", "rb">>}

GenSections == {1, NumSections}

NoResult == [exc |-> FALSE, returncode |-> 0, stdout |-> <<>>]

CliResults ==
    {[exc |-> TRUE, returncode |-> 0, stdout |-> <<>>],
     [exc |-> FALSE, returncode |-> 1, stdout |-> <<>>]}
    \cup {[exc |-> FALSE, returncode |-> 0, stdout |-> o] : o \in Stdouts}

IdleGen ==
    /\ g_pc = "idle"
    /\ section_num = 1
    /\ files = [f \in FileNames(1) |-> Absent]
    /\ files0 = files
    /\ result = NoResult
    /\ g_ret = NoneV
    /\ g_wrote = FALSE

IdleCompile ==
    /\ c_pc = "idle"
    /\ c_sections = <<>>
    /\ c_company_info = [kind |-> "dict", company_name |-> "", afm |-> "",
                         kad |-> "", website |-> ""]
    /\ c_out = [raised |-> FALSE, report |-> NoReport, written |-> NoReport]

\* lines 491-496: the placeholder metadata
PlaceholderInfo ==
    [kind |-> "dict", company_name |-> "", afm |-> "", kad |-> "", website |-> ""]

NotCompiled ==
    [called |-> FALSE, raised |-> FALSE, report |-> NoReport, written |-> NoReport]

IdleMain ==
    /\ m_pc = "idle"
    /\ m_section_num = 1
    /\ sections = <<>>
    /\ company_info = PlaceholderInfo
    /\ attempted = <<>>
    /\ last_cli = "none"
    /\ m_report = NotCompiled
    /\ m_classification = [cli |-> "none", returned |-> FALSE]
    /\ afm_for_directory = "<None>"
    /\ section_1 = NoneV
    /\ calls = <<>>
    /\ html_success = "unset"
    /\ m_panel = "none"
    /\ m_error = "none"

\* lines 70-71, 161: {i: [] for i in range(1, 12)}
EmptyMapping == [i \in 1..NumSections |-> <<>>]

IdleClassify ==
    /\ cl_pc = "idle"
    /\ cl_files = <<>>
    /\ cl_invoked = FALSE
    /\ cl_response = <<>>
    /\ section_mapping = EmptyMapping

IdleVideo ==
    /\ v_pc = "idle"
    /\ v_large = FALSE
    /\ temp_dir = [exists |-> FALSE, files |-> {}]
    /\ v_created = FALSE
    /\ chunk_count = 0
    /\ chunk_files = <<>>
    /\ transcripts = <<>>
    /\ v_i = 0
    /\ v_failed = FALSE

IdleSharePoint ==
    /\ sp_pc = "idle"
    /\ sp_drive = [f \in {"root"} |-> <<>>]
    /\ sp_page_size = 1
    /\ sp_recursive = FALSE
    /\ sp_stack = <<>>
    /\ sp_attempted = <<>>
    /\ sp_listings = <<>>
    /\ sp_ret = <<>>

IdleDiscover ==
    /\ d_pc = "idle"
    /\ d_tree = <<>>
    /\ d_ext = 1
    /\ d_files = <<>>
    /\ d_ret = <<>>

IdleRender ==
    /\ r_pc = "idle"
    /\ r_json = [kind |-> "missing"]
    /\ r_template = FALSE
    /\ r_logo = Absent
    /\ r_now = <<"d1">>
    /\ r_data = [kind |-> "None"]
    /\ r_html = [exists |-> FALSE, context |-> <<>>]

IdleArgs ==
    /\ a_pc = "idle"
    /\ argv = <<>>
    /\ a_i = 1
    /\ afm_mode = FALSE
    /\ afm_number = "<None>"
    /\ directory_path = "<None>"
    /\ a_prompted = FALSE
    /\ a_mode = "none"
    /\ a_target = "<None>"
    /\ a_status = 0

IdleAfm ==
    /\ e_pc = "idle"
    /\ e_directory = [name |-> <<>>, parent |-> <<>>]
    /\ e_provided = <<"<None>">>
    /\ e_ret = <<>>

IdleWorkdir ==
    /\ w_pc = "idle"
    /\ w_afm_mode = FALSE
    /\ w_directory = <<>>
    /\ w_files = <<>>
    /\ w_classified = [i \in 1..NumSections |-> <<>>]
    /\ w_file_classification = [i \in 1..NumSections |-> <<>>]
    /\ w_output_dir = <<>>
    /\ w_i = 1
    /\ w_disk = {}
    /\ w_mapping = [i \in 1..NumSections |-> <<>>]

IdlePreprocess ==
    /\ p_pc = "idle"
    /\ p_suffix = ""
    /\ p_exists = FALSE
    /\ p_readable = FALSE
    /\ p_rows = <<>>
    /\ p_full_text = <<>>
    /\ p_result = <<>>

IdleExcel ==
    /\ x_pc = "idle"
    /\ x_row = 0
    /\ x_data_rows = <<>>
    /\ x_sheet_info = [table_data |-> <<>>, has_more_rows |-> FALSE]

InitGen ==
    /\ IdleMain
    /\ IdleClassify
    /\ IdleVideo
    /\ IdleSharePoint
    /\ IdleDiscover
    /\ IdleRender
    /\ IdleArgs
    /\ IdleAfm
    /\ IdleWorkdir
    /\ IdlePreprocess
    /\ IdleExcel
    /\ g_pc = "call"
    /\ section_num \in GenSections
    /\ \E old \in OldFileTexts \cup {Absent} :
           files = [f \in FileNames(section_num) |->
                       IF f = section_file(section_num) THEN old ELSE Absent]
    /\ files0 = files
    /\ result = NoResult
    /\ g_ret = NoneV
    /\ g_wrote = FALSE
    /\ IdleCompile

\* lines 121-145: the prompt is saved and the CLI runs in output_dir; the CLI
\* may write the section file itself
RunCli ==
    /\ g_pc = "call"
    /\ \E res \in CliResults, w \in CliFileTexts \cup {Absent} :
          /\ result' = res
          /\ files' = [files EXCEPT
                 ![prompt_file(section_num)] = <<"txt">>,
                 ![section_file(section_num)] =
                     IF w # Absent /\ ~res.exc THEN w ELSE @]
          /\ g_wrote' = (w # Absent /\ ~res.exc)
    /\ files0' = files'
    /\ g_pc' = "cli"
    /\ UNCHANGED <<section_num, g_ret, notGen>>

\* lines 147-207
ReadBack ==
    /\ g_pc = "cli"
    /\ g_ret' = AfterCli(section_num, result, files).ret
    /\ files' = AfterCli(section_num, result, files).files
    /\ g_pc' = "returned"
    /\ UNCHANGED <<section_num, result, files0, g_wrote, notGen>>

NextGen == RunCli \/ ReadBack

SpecGen == InitGen /\ [][NextGen]_vars

---------------------------------------------------------------------------
\* Claims about generate_section_via_agent

\* the call returned after a CLI run that exited 0
CliExitedZero == g_pc = "returned" /\ ~result.exc /\ result.returncode = 0

IsFence(t) == t \in {"open", "fence"}

\* stdout holds a ```json ... ``` block
HasFencedBlock ==
    \E i, j \in 1..Len(result.stdout) :
        i < j /\ result.stdout[i] = "open" /\ IsFence(result.stdout[j])

\* the text between the first ```json and the first ``` after it
FirstFencedBlock ==
    LET out == result.stdout
        i == CHOOSE a \in 1..Len(out) :
                 /\ out[a] = "open"
                 /\ \A b \in 1..(a - 1) : out[b] # "open"
        j == CHOOSE c \in (i + 1)..Len(out) :
                 /\ IsFence(out[c])
                 /\ \A b \in (i + 1)..(c - 1) : ~IsFence(out[b])
    IN  [k \in 1..(j - i - 1) |-> out[i + k]]

\* stdout holds { ... "number" ... }
HasRawObject ==
    \E i, k, j \in 1..Len(result.stdout) :
        /\ i < k /\ k < j
        /\ result.stdout[i] = "lb"
        /\ result.stdout[k] \in {"n7", "n8"}
        /\ result.stdout[j] = "rb"

\* the text from the first { to the last }
RawObject ==
    LET out == result.stdout
        i == CHOOSE a \in 1..Len(out) :
                 out[a] = "lb" /\ \A b \in 1..(a - 1) : out[b] # "lb"
        j == CHOOSE c \in 1..Len(out) :
                 out[c] = "rb" /\ \A b \in (c + 1)..Len(out) : out[b] # "rb"
    IN  [k \in 1..(j - i + 1) |-> out[i + k - 1]]

\* C2: after a CLI run that exits 0 the section comes from
\* section_<N>_generated.json when that file exists (stdout is then never
\* used: nothing in output_dir changes); otherwise from the first ```json
\* block of stdout; only without a fenced block from the raw {..."number"...}
\* text; a section obtained from stdout is written to
\* section_<N>_generated.json before it is returned.
C2_SourcePrecedence ==
    CliExitedZero =>
        IF files0[section_file(section_num)] # Absent
        THEN /\ g_ret = JsonLoads(files0[section_file(section_num)])
             /\ files = files0
        ELSE /\ g_ret = IF HasFencedBlock THEN JsonLoads(FirstFencedBlock)
                        ELSE IF HasRawObject THEN JsonLoads(RawObject)
                        ELSE NoneV
             /\ g_ret # NoneV => files[section_file(section_num)] = JsonDump(g_ret)
             /\ g_ret = NoneV => files[section_file(section_num)] = Absent

\* C2 witness: no section file, stdout holds a fenced block and a raw object,
\* the section was returned and saved
C2_Witness ==
    /\ CliExitedZero
    /\ files0[section_file(section_num)] = Absent
    /\ HasFencedBlock
    /\ HasRawObject
    /\ g_ret.kind = "dict"
    /\ files[section_file(section_num)] = JsonDump(g_ret)

\* C3 as stated: whenever the CLI exits 0 and no section is obtained, the
\* debug dump section_<N>_output_debug.txt has been written on return.
C3_DebugDumpAlways ==
    (CliExitedZero /\ g_ret = NoneV) => files[debug_file(section_num)] # Absent

\* C3 amended: when the CLI exits 0, section_<N>_generated.json does not
\* exist and stdout yields no parsable JSON, the debug dump holds the text
\* that failed (the extracted text, or all of stdout when nothing was
\* extracted); when the file exists but does not parse, None is returned
\* and no debug dump is written.
C3_DebugDumpForStdout ==
    (CliExitedZero /\ g_ret = NoneV) =>
        IF files0[section_file(section_num)] = Absent
        THEN files[debug_file(section_num)] =
                 IF HasFencedBlock THEN FirstFencedBlock
                 ELSE IF HasRawObject THEN RawObject
                 ELSE result.stdout
        ELSE files[debug_file(section_num)] = Absent

\* C3 witness: a fenced block that is not JSON was dumped
C3_Witness ==
    /\ CliExitedZero
    /\ g_ret = NoneV
    /\ files0[section_file(section_num)] = Absent
    /\ HasFencedBlock
    /\ files[debug_file(section_num)] = FirstFencedBlock
    /\ files[debug_file(section_num)] # result.stdout

\* C14: a section that generate_section_via_agent returns was produced by
\* the CLI run of this call: it is read from section_<N>_generated.json only
\* when that run wrote the file, and otherwise taken from the run's stdout.
C14_AlwaysFresh ==
    (g_pc = "returned" /\ g_ret # NoneV /\ ~g_wrote) =>
        files0[section_file(section_num)] = Absent

---------------------------------------------------------------------------
\* One call of compile_final_report

MaxSecs == 3

Dict(items) == [kind |-> "dict", items |-> items]

\* list[dict] entries, None included
CompileEntries ==
    {NoneV, Dict(<<>>), Dict(<<"n7">>), Dict(<<"n7", "v1">>), Dict(<<"n8">>),
     Dict(<<"n8", "v0">>), Dict(<<"n8", "vN">>), Dict(<<"n8", "v1">>),
     Dict(<<"n8", "v2">>)}

CompanyInfos ==
    {[kind |-> "dict", company_name |-> "", afm |-> "", kad |-> "", website |-> ""],
     [kind |-> "dict", company_name |-> "ACME", afm |-> "123456789",
      kad |-> "62.01", website |-> Missing]}

InitCompile ==
    /\ IdleGen
    /\ IdleMain
    /\ IdleClassify
    /\ IdleVideo
    /\ IdleSharePoint
    /\ IdleDiscover
    /\ IdleRender
    /\ IdleArgs
    /\ IdleAfm
    /\ IdleWorkdir
    /\ IdlePreprocess
    /\ IdleExcel
    /\ c_pc = "call"
    /\ c_sections \in UNION {[1..k -> CompileEntries] : k \in 0..MaxSecs}
    /\ c_company_info \in CompanyInfos
    /\ c_out = [raised |-> FALSE, report |-> NoReport, written |-> NoReport]

Compile ==
    /\ c_pc = "call"
    /\ c_out' = CompileFinalReport(c_sections, c_company_info)
    /\ c_pc' = "returned"
    /\ UNCHANGED <<c_sections, c_company_info, notCompile>>

NextCompile == Compile

SpecCompile == InitCompile /\ [][NextCompile]_vars

\* positions of the entries that are not None
NonNonePositions == {i \in 1..Len(c_sections) : c_sections[i] # NoneV}

\* the k-th of them
NthNonNone(k) ==
    CHOOSE i \in NonNonePositions :
        Cardinality({j \in NonNonePositions : j <= i}) = k

\* C6: the report's "sections" are exactly the non-None entries of the input
\* list, in the same order and unmodified (so never more than the input
\* holds), and the report written to the output file is the one returned.
C6_SectionsKept ==
    c_pc = "returned" =>
        /\ ~c_out.raised
        /\ Len(c_out.report.sections) = Cardinality(NonNonePositions)
        /\ \A k \in 1..Len(c_out.report.sections) :
               c_out.report.sections[k] = c_sections[NthNonNone(k)]
        /\ Len(c_out.report.sections) <= Len(c_sections)
        /\ c_out.written = DumpReport(c_out.report)

\* C6 witness: a None and an empty (falsy) dict among the input; the None is
\* dropped, the empty dict is kept
C6_Witness ==
    /\ c_pc = "returned"
    /\ \E i \in 1..Len(c_sections) : c_sections[i] = NoneV
    /\ \E i \in 1..Len(c_sections) : c_sections[i] = Dict(<<>>)
    /\ Len(c_out.report.sections) = Len(c_sections) - 1

\* positions of the sections whose number is 8
Section8Positions ==
    {i \in 1..Len(c_sections) :
        c_sections[i] # NoneV /\ "n8" \in {c_sections[i].items[j] :
                                             j \in 1..Len(c_sections[i].items)}}

FirstSection8 == CHOOSE i \in Section8Positions : \A j \in Section8Positions : i <= j

\* the video list a section carries: {} when it has none, or null, or []
CarriedVideos(sec) ==
    IF \E j \in 1..Len(sec.items) : sec.items[j] = "v1" THEN <<"video_a">>
    ELSE IF \E j \in 1..Len(sec.items) : sec.items[j] = "v2"
         THEN <<"video_b", "video_c">>
    ELSE <<>>

---------------------------------------------------------------------------
\* main, from Phase 2 on

\* the value of a "metadata" member
MetaValue(tok) ==
    IF tok = "mD"
    THEN [kind |-> "dict", company_name |-> "ACME", afm |-> "123456789",
          kad |-> "62.01", website |-> Missing]
    ELSE IF tok = "mP"
    THEN [kind |-> "dict", company_name |-> Missing, afm |-> "123456789",
          kad |-> Missing, website |-> Missing]
    ELSE [kind |-> "null"]

\* what the CLI may save as section_<N>_generated.json in a run of main
SectionTexts(n) ==
    IF n = 1
    THEN {<<"lb", "n7", "rb">>, <<"lb", "n7", "mD", "rb">>,
          <<"lb", "n7", "mN", "rb">>, <<"lb", "n7", "mP", "rb">>}
    ELSE IF n = 2 THEN {<<"lb", "n7", "rb">>, <<"lb", "rb">>, <<"arr">>}
    ELSE IF n = 8 THEN {<<"lb", "n8", "v1", "rb">>, <<"lb", "n8", "rb">>}
    ELSE {<<"lb", "n7", "rb">>}

\* the CLI runs of main: [res, wrote, how]
MainCliRuns(n) ==
    {[res |-> [exc |-> TRUE, returncode |-> 0, stdout |-> <<>>],
      wrote |-> Absent, how |-> "exception"],
     [res |-> [exc |-> FALSE, returncode |-> 1, stdout |-> <<>>],
      wrote |-> Absent, how |-> "nonzero"],
     [res |-> [exc |-> FALSE, returncode |-> 0, stdout |-> <<"txt">>],
      wrote |-> Absent, how |-> "unparsable"],
     [res |-> [exc |-> FALSE, returncode |-> 0,
               stdout |-> <<"txt", "open", "lb", "n7", "rb", "fence">>],
      wrote |-> Absent, how |-> "stdout"]}
    \cup {[res |-> [exc |-> FALSE, returncode |-> 0, stdout |-> <<>>],
           wrote |-> t, how |-> "file"] : t \in SectionTexts(n)}

\* lines 111-207: one call in a fresh output_dir, the return value
GenerateSectionViaAgent(n, run) ==
    AfterCli(n, run.res,
             [f \in FileNames(n) |->
                 IF f = section_file(n) THEN run.wrote
                 ELSE IF f = prompt_file(n) THEN <<"txt">>
                 ELSE Absent]).ret

\* mutant: the metadata of Section 1 is never taken
HasMetadata_Never(sec) == FALSE

\* 'metadata' in section_1 (a list holds no such element)
HasMetadata(sec) == sec.kind = "dict" /\ Get(sec, "metadata") # "absent"

\* how the classification CLI may end: it answers with the JSON asked for,
\* exits non-zero, runs into the timeout, is not installed, or answers with
\* text that is no JSON
ClassifierRuns == {"answer", "nonzero", "timeout", "missing", "badjson"}

\* mutant: FileNotFoundError is not handled
ClassifyError_MissingUncaught(run) ==
    CASE run \in {"nonzero", "timeout"} -> "RuntimeError"
      [] run = "missing" -> "FileNotFoundError"
      [] run = "badjson" -> "JSONDecodeError"
      [] OTHER -> "none"

\* classify_files_llm.py lines 123-158: the exception the call ends with
ClassifyError(run) ==
    CASE run \in {"nonzero", "timeout", "missing"} -> "RuntimeError"
      [] run = "badjson" -> "JSONDecodeError"
      [] OTHER -> "none"

\* what extract_afm may give main
MainAfms == {"987654321", "unknown"}

InitMain ==
    /\ IdleGen
    /\ IdleCompile
    /\ IdleClassify
    /\ IdleVideo
    /\ IdleSharePoint
    /\ IdleDiscover
    /\ IdleRender
    /\ IdleArgs
    /\ IdleAfm
    /\ IdleWorkdir
    /\ IdlePreprocess
    /\ IdleExcel
    /\ m_pc = "phase2"
    /\ m_section_num = 1
    /\ sections = <<>>
    /\ company_info = PlaceholderInfo
    /\ attempted = <<>>
    /\ last_cli = "none"
    /\ m_report = NotCompiled
    /\ m_classification = [cli |-> "none", returned |-> FALSE]
    /\ afm_for_directory = "<None>"
    /\ section_1 = NoneV
    /\ calls = <<>>
    /\ html_success = "unset"
    /\ m_panel = "none"
    /\ m_error = "none"

\* lines 480-483: classify_files_with_llm raises, which main does not
\* catch, or returns the mapping
ClassifyFiles ==
    /\ m_pc = "phase2"
    /\ \E run \in ClassifierRuns :
          /\ m_classification' = [cli |-> run,
                                  returned |-> ClassifyError(run) = "none"]
          /\ m_error' = ClassifyError(run)
          /\ m_pc' = IF ClassifyError(run) = "none" THEN "phase3" ELSE "crashed"
    /\ UNCHANGED <<m_section_num, sections, company_info, attempted, last_cli,
                   m_report, afm_for_directory, section_1, calls, html_success,
                   m_panel,
                   notMain>>

\* lines 485-496: the AFM for the directory name, the placeholder metadata
ExtractAfm ==
    /\ m_pc = "phase3"
    /\ afm_for_directory' \in MainAfms
    /\ company_info' = PlaceholderInfo
    /\ m_pc' = "section1"
    /\ UNCHANGED <<m_section_num, sections, attempted, last_cli, m_report,
                   m_classification, section_1, calls, html_success, m_panel,
                   m_error,
                   notMain>>

\* lines 571-591
GenerateSection1 ==
    /\ m_pc = "section1"
    /\ \E run \in MainCliRuns(1) :
         /\ section_1' = GenerateSectionViaAgent(1, run)
         /\ attempted' = Append(attempted, 1)
         /\ calls' = Append(calls, [to |-> 1, info |-> company_info])
         /\ last_cli' = run.how
         /\ sections' = IF Truthy(section_1') THEN <<section_1'>> ELSE <<>>
         /\ IF Truthy(section_1') /\ HasMetadata(section_1')
            THEN /\ company_info' = MetaValue(Get(section_1', "metadata"))
                 \* line 584: company_info.get raises on a value that is no dict
                 /\ m_pc' = IF company_info'.kind = "dict" THEN "sections"
                            ELSE "crashed"
            ELSE /\ company_info' = company_info
                 /\ m_pc' = "sections"
    /\ m_error' = IF m_pc' = "crashed" THEN "AttributeError" ELSE "none"
    /\ m_section_num' = 2
    /\ UNCHANGED <<m_report, m_classification, afm_for_directory,
                   html_success, m_panel, notMain>>

\* lines 594-602: one iteration of the loop
GenerateSection ==
    /\ m_pc = "sections"
    /\ \E run \in MainCliRuns(m_section_num) :
         LET section == GenerateSectionViaAgent(m_section_num, run) IN
         /\ attempted' = Append(attempted, m_section_num)
         /\ calls' = Append(calls, [to |-> m_section_num,
                                    info |-> company_info])
         /\ last_cli' = run.how
         /\ sections' = IF Truthy(section) THEN Append(sections, section)
                        ELSE sections
    /\ m_section_num' = m_section_num + 1
    /\ m_pc' = IF m_section_num = NumSections THEN "compile" ELSE "sections"
    /\ UNCHANGED <<company_info, m_report, m_classification,
                   afm_for_directory, section_1, html_success, m_panel,
                   m_error, notMain>>

\* lines 604-607
CompileReport ==
    /\ m_pc = "compile"
    /\ LET out == CompileFinalReport(sections, company_info) IN
         /\ m_report' = [called |-> TRUE, raised |-> out.raised,
                         report |-> out.report, written |-> out.written]
         /\ m_pc' = IF out.raised THEN "crashed" ELSE "render"
         /\ m_error' = IF out.raised THEN "AttributeError" ELSE "none"
         /\ calls' = Append(calls, [to |-> 0, info |-> company_info])
    /\ UNCHANGED <<m_section_num, sections, company_info, attempted, last_cli,
                   m_classification, afm_for_directory, section_1,
                   html_success, m_panel, notMain>>

\* lines 609-628: render_report succeeds, or raises and is caught; it opens
\* the JSON file for reading only
RenderHtml ==
    /\ m_pc = "render"
    /\ html_success' \in {"true", "false"}
    /\ m_pc' = "summary"
    /\ UNCHANGED <<m_section_num, sections, company_info, attempted, last_cli,
                   m_report, m_classification, afm_for_directory, section_1,
                   calls,
                   m_panel, m_error, notMain>>

\* lines 630-661: the summary panel; company_info['company_name'] raises
\* KeyError on a dict without that key
Summary ==
    /\ m_pc = "summary"
    /\ IF company_info.company_name = Missing
       THEN /\ m_pc' = "crashed"
            /\ m_error' = "KeyError"
            /\ m_panel' = m_panel
       ELSE /\ m_pc' = IF html_success = "true" THEN "done" ELSE "done_partial"
            /\ m_panel' = IF html_success = "true" THEN "success" ELSE "partial"
            /\ m_error' = m_error
    /\ UNCHANGED <<m_section_num, sections, company_info, attempted, last_cli,
                   m_report, m_classification, afm_for_directory, section_1,
                   calls,
                   html_success, notMain>>

Next ==
    \/ ClassifyFiles
    \/ ExtractAfm
    \/ GenerateSection1
    \/ GenerateSection
    \/ CompileReport
    \/ RenderHtml
    \/ Summary

Spec == InitMain /\ [][Next]_vars

\* the run is over
RunEnded == m_pc \in {"done", "done_partial", "crashed"}

\* classification returned a mapping
Classified == m_pc # "phase2" /\ ~(m_pc = "crashed" /\ attempted = <<>>)

\* C1: once classification has succeeded, each of the 11 sections is
\* attempted exactly once in ascending order, and a failed section (CLI
\* exception, non-zero exit, unparsable output) stops neither the later
\* sections nor compile_final_report.
C1_AllSectionsAttempted ==
    /\ \A i \in 1..Len(attempted) : attempted[i] = i
    /\ (RunEnded /\ Classified) =>
           /\ attempted = [i \in 1..NumSections |-> i]
           /\ m_report.called

\* Section 1 came back as a JSON object, with or without 'metadata'
Section1Generated ==
    /\ calls # <<>>
    /\ Truthy(section_1)
    /\ section_1.kind = "dict"

Section1Metadata == Get(section_1, "metadata")

\* C15: when Section 1 is generated without 'metadata', the company_info
\* passed for Sections 2..11 and to compile_final_report carries the AFM
\* that Phase 3 extracted from the folder name.
C15_FolderAfmUsed ==
    (Section1Generated /\ Section1Metadata = "absent") =>
        \A i \in 2..Len(calls) : calls[i].info.afm = afm_for_directory

\* C16: the first call is for Section 1; when it returns an object with
\* 'metadata', every later call (Sections 2..11, compile_final_report) is
\* passed exactly that metadata, and otherwise the company_info Section 1
\* was passed; so no later section changes company_info.
C16_MetadataPropagated ==
    /\ calls # <<>> => calls[1].to = 1
    /\ \A i \in 2..Len(calls) :
          /\ calls[i].to = (IF i <= NumSections THEN i ELSE 0)
          /\ calls[i].info =
                 (IF Section1Generated /\ Section1Metadata # "absent"
                  THEN MetaValue(Section1Metadata)
                  ELSE calls[1].info)
          /\ calls[i].info = company_info

\* Section 1 came with metadata and all of Sections 2..11 and
\* compile_final_report were called
C16_Witness ==
    /\ Len(calls) = NumSections + 1
    /\ calls[NumSections + 1].to = 0
    /\ Section1Generated
    /\ Section1Metadata = "mD"
    /\ calls[1].info = PlaceholderInfo
    /\ calls[NumSections].info.company_name = "ACME"

\* C17: when HTML rendering is attempted mentoring_report_complete.json
\* holds the whole report; after a rendering failure the file still holds
\* it and the run ends with the "Partial Success" panel, not an exception.
C17_RenderFailurePartialSuccess ==
    /\ html_success # "unset" =>
          /\ m_report.written # NoReport
          /\ m_report.written = DumpReport(m_report.report)
    /\ (html_success = "false" /\ RunEnded) =>
          /\ m_pc = "done_partial"
          /\ m_panel = "partial"
          /\ m_error = "none"

\* C20: a classification CLI that exits non-zero, times out or is missing
\* makes classify_files_with_llm raise RuntimeError and return no mapping,
\* and this ends main before Phase 3 and before any section is generated.
C20_ClassificationFailureEndsRun ==
    m_classification.cli \in {"nonzero", "timeout", "missing"} =>
        /\ m_error = "RuntimeError"
        /\ ~m_classification.returned
        /\ m_pc = "crashed"
        /\ afm_for_directory = "<None>"
        /\ attempted = <<>>
        /\ calls = <<>>

\* the CLI is not installed
C20_Witness ==
    /\ m_classification.cli = "missing"
    /\ m_pc = "crashed"
    /\ m_error = "RuntimeError"

---------------------------------------------------------------------------
\* One call of classify_files_with_llm

MaxEntries == 2

\* the files argument: distinct paths, two of them sharing a name
FileLists ==
    {<<>>,
     <<<<"a", "plan.pdf">>>>,
     <<<<"a", "plan.pdf">>, <<"a", "tax.xlsx">>>>,
     <<<<"a", "plan.pdf">>, <<"b", "plan.pdf">>, <<"b", "tax.xlsx">>>>}

\* filenames the LLM may answer with: input names and one that is none
ResponseNames == {"plan.pdf", "tax.xlsx", "other.doc"}

\* section numbers the LLM may answer with, in and out of range
ResponseSections == {0, 1, NumSections, NumSections + 1}

\* the "sections" lists of an entry
ResponseSectionLists ==
    {<<>>} \cup {<<a>> : a \in ResponseSections}
        \cup {<<1, NumSections>>, <<1, 1>>, <<NumSections + 1, 1, 0>>}

ResponseEntries ==
    {[filename |-> n, sections |-> ss] :
        n \in ResponseNames, ss \in ResponseSectionLists}

\* the stdout of the classification CLI
ResponseTexts ==
    {<<"doc">>, <<"open", "doc", "fence">>, <<"txt", "open", "doc", "fence", "txt">>,
     <<"fence", "doc", "fence">>, <<"open", "doc">>, <<"txt", "doc">>, <<"txt">>}

InitClassify ==
    /\ IdleGen
    /\ IdleCompile
    /\ IdleMain
    /\ IdleVideo
    /\ IdleSharePoint
    /\ IdleDiscover
    /\ IdleRender
    /\ IdleArgs
    /\ IdleAfm
    /\ IdleWorkdir
    /\ IdlePreprocess
    /\ IdleExcel
    /\ cl_pc = "call"
    /\ cl_files \in FileLists
    /\ cl_invoked = FALSE
    /\ cl_response = <<>>
    /\ section_mapping = EmptyMapping

\* lines 70-71: no files, the empty mapping is returned at once
ClassifyNothing ==
    /\ cl_pc = "call"
    /\ cl_files = <<>>
    /\ section_mapping' = EmptyMapping
    /\ cl_pc' = "returned"
    /\ UNCHANGED <<cl_files, cl_invoked, cl_response, notClassify>>

\* lines 73-146: the CLI times out, is missing or exits non-zero
ClassifyCliFails ==
    /\ cl_pc = "call"
    /\ cl_files # <<>>
    /\ cl_invoked' = TRUE
    /\ cl_pc' = "raised"
    /\ UNCHANGED <<cl_files, cl_response, section_mapping, notClassify>>

\* lines 73-164: the CLI answers; the text is stripped and parsed
ClassifyCliAnswers ==
    /\ cl_pc = "call"
    /\ cl_files # <<>>
    /\ cl_invoked' = TRUE
    /\ \E text \in ResponseTexts :
          cl_pc' = IF ResponseParses(text) THEN "loop" ELSE "raised"
    /\ section_mapping' = EmptyMapping
    /\ UNCHANGED <<cl_files, cl_response, notClassify>>

\* lines 166-174: the next entry of result["classifications"]
ClassifyEntry ==
    /\ cl_pc = "loop"
    /\ Len(cl_response) < MaxEntries
    /\ \E entry \in ResponseEntries :
          /\ cl_response' = Append(cl_response, entry)
          /\ section_mapping' = ApplyClassification(section_mapping, cl_files, entry)
    /\ UNCHANGED <<cl_pc, cl_files, cl_invoked, notClassify>>

\* lines 166-168: an entry without "filename" or "sections": KeyError
ClassifyEntryMalformed ==
    /\ cl_pc = "loop"
    /\ Len(cl_response) < MaxEntries
    /\ cl_pc' = "raised"
    /\ UNCHANGED <<cl_files, cl_invoked, cl_response, section_mapping, notClassify>>

\* line 176: the list is exhausted
ClassifyReturn ==
    /\ cl_pc = "loop"
    /\ cl_pc' = "returned"
    /\ UNCHANGED <<cl_files, cl_invoked, cl_response, section_mapping, notClassify>>

NextClassify ==
    \/ ClassifyNothing
    \/ ClassifyCliFails
    \/ ClassifyCliAnswers
    \/ ClassifyEntry
    \/ ClassifyEntryMalformed
    \/ ClassifyReturn

SpecClassify == InitClassify /\ [][NextClassify]_vars

InputFiles == {cl_files[i] : i \in 1..Len(cl_files)}

InputNames == {NameOf(f) : f \in InputFiles}

\* the (entry, position) pairs of the response that put a file into section s
Assignments(s) ==
    UNION {{<<e, k>> : k \in {j \in 1..Len(cl_response[e].sections) :
                                  /\ cl_response[e].sections[j] = s
                                  /\ cl_response[e].filename \in InputNames}} :
           e \in 1..Len(cl_response)}

\* C4: the returned mapping has exactly the keys 1..11 and holds input files
\* only; an entry naming no input file adds nothing, a section number outside
\* 1..11 adds nothing; an empty input gives 11 empty lists without a CLI run.
C4_MappingShape ==
    cl_pc = "returned" =>
        /\ DOMAIN section_mapping = 1..NumSections
        /\ \A s \in DOMAIN section_mapping :
              /\ \A i \in 1..Len(section_mapping[s]) :
                    /\ section_mapping[s][i] \in InputFiles
                    /\ \E a \in Assignments(s) :
                          cl_response[a[1]].filename = NameOf(section_mapping[s][i])
              /\ Len(section_mapping[s]) = Cardinality(Assignments(s))
        /\ cl_files = <<>> =>
              /\ ~cl_invoked
              /\ \A s \in DOMAIN section_mapping : section_mapping[s] = <<>>

\* C4 witness: a response with an unknown filename and an out-of-range
\* section number, and a file that did get classified
C4_Witness ==
    /\ cl_pc = "returned"
    /\ \E e \in 1..Len(cl_response) : cl_response[e].filename \notin InputNames
    /\ \E e \in 1..Len(cl_response) :
          /\ cl_response[e].filename \in InputNames
          /\ \E k \in 1..Len(cl_response[e].sections) :
                cl_response[e].sections[k] = NumSections + 1
    /\ \E s \in DOMAIN section_mapping : section_mapping[s] # <<>>

\* C5 as stated: with at least one file, every section 1..11 of the returned
\* mapping holds at least one file.
C5_NoEmptySection ==
    (cl_pc = "returned" /\ cl_files # <<>>) =>
        \A s \in 1..NumSections : section_mapping[s] # <<>>

\* C5 amended: with at least one file, a section of the returned mapping
\* holds a file exactly when the LLM's answer assigns an input file's name to
\* that section; the sections the answer leaves out stay empty.
C5_SectionFilledByAnswerOnly ==
    (cl_pc = "returned" /\ cl_files # <<>>) =>
        \A s \in 1..NumSections :
            section_mapping[s] # <<>> <=> Assignments(s) # {}

\* C5 witness: files were given, one section was filled and another is empty
C5_Witness ==
    /\ cl_pc = "returned"
    /\ cl_files # <<>>
    /\ section_mapping[1] # <<>>
    /\ section_mapping[NumSections] = <<>>

---------------------------------------------------------------------------
\* One call of transcribe_video

MaxChunks == 3

\* line 131
chunk_duration_seconds == 900

\* durations ffprobe may report: whole and half chunks
Durations == {k * (chunk_duration_seconds \div 2) : k \in 0..(2 * MaxChunks)}

\* lines 46-48
ChunkCount(duration) ==
    (duration \div chunk_duration_seconds)
        + (IF duration % chunk_duration_seconds > 0 THEN 1 ELSE 0)

NoTempDir == [exists |-> FALSE, files |-> {}]

\* mutant: the directory is removed with rmdir, which leaves a directory
\* that still holds files
Cleanup_Rmdir(dir) ==
    IF dir.exists /\ dir.files = {} THEN NoTempDir ELSE dir

\* lines 158-162: if temp_dir.exists(): shutil.rmtree(temp_dir)
Cleanup(dir) ==
    IF dir.exists THEN NoTempDir ELSE dir

InitVideo ==
    /\ IdleGen
    /\ IdleCompile
    /\ IdleMain
    /\ IdleClassify
    /\ IdleSharePoint
    /\ IdleDiscover
    /\ IdleRender
    /\ IdleArgs
    /\ IdleAfm
    /\ IdleWorkdir
    /\ IdlePreprocess
    /\ IdleExcel
    /\ v_pc = "call"
    /\ v_large \in BOOLEAN
    \* a directory of the same name may be left from an earlier run
    /\ temp_dir \in {NoTempDir, [exists |-> TRUE, files |-> {<<"stale", 0>>}]}
    /\ v_created = FALSE
    /\ chunk_count = 0
    /\ chunk_files = <<>>
    /\ transcripts = <<>>
    /\ v_i = 0
    /\ v_failed = FALSE

\* lines 94-114: the file is missing, the format unsupported, or the OpenAI
\* client cannot be built
TranscribeRejected ==
    /\ v_pc = "call"
    /\ v_pc' = "raised"
    /\ v_failed' = TRUE
    /\ UNCHANGED <<v_large, temp_dir, v_created, chunk_count, chunk_files,
                   transcripts, v_i, notVideo>>

\* lines 164-180: a file within the limit is transcribed directly
TranscribeDirect ==
    /\ v_pc = "call"
    /\ ~v_large
    /\ \E ok \in BOOLEAN :
          /\ transcripts' = IF ok THEN <<"whole">> ELSE <<>>
          /\ v_failed' = ~ok
          /\ v_pc' = IF ok THEN "returned" ELSE "raised"
    /\ UNCHANGED <<v_large, temp_dir, v_created, chunk_count, chunk_files, v_i,
                   notVideo>>

\* lines 116-127: the chunk directory is made (exist_ok=True)
MakeTempDir ==
    /\ v_pc = "call"
    /\ v_large
    /\ temp_dir' = [temp_dir EXCEPT !.exists = TRUE]
    /\ v_created' = TRUE
    /\ v_pc' = "probe"
    /\ UNCHANGED <<v_large, chunk_count, chunk_files, transcripts, v_i, v_failed,
                   notVideo>>

\* lines 42-48 (chunk_video): ffprobe gives the duration, or fails
ProbeDuration ==
    /\ v_pc = "probe"
    /\ \/ \E duration \in Durations :
             /\ chunk_count' = ChunkCount(duration)
             /\ v_pc' = IF ChunkCount(duration) = 0 THEN "transcribing"
                        ELSE "chunking"
             /\ v_failed' = FALSE
       \/ /\ chunk_count' = chunk_count
          /\ v_pc' = "finally"
          /\ v_failed' = TRUE
    /\ UNCHANGED <<v_large, temp_dir, v_created, chunk_files, transcripts, v_i,
                   notVideo>>

\* lines 55-84 (chunk_video): ffmpeg writes the next chunk, or fails
MakeChunk ==
    /\ v_pc = "chunking"
    /\ LET i == Len(chunk_files) IN
       \/ /\ chunk_files' = Append(chunk_files, i)
          /\ temp_dir' = [temp_dir EXCEPT !.files = @ \cup {<<"chunk", i>>}]
          /\ v_pc' = IF i + 1 = chunk_count THEN "transcribing" ELSE "chunking"
          /\ v_failed' = FALSE
       \/ \E partial \in BOOLEAN :
             /\ chunk_files' = chunk_files
             /\ temp_dir' = IF partial
                            THEN [temp_dir EXCEPT !.files = @ \cup {<<"chunk", i>>}]
                            ELSE temp_dir
             /\ v_pc' = "finally"
             /\ v_failed' = TRUE
    /\ UNCHANGED <<v_large, v_created, chunk_count, transcripts, v_i, notVideo>>

\* lines 140-156: one chunk is transcribed, or fails and is passed over
TranscribeChunk ==
    /\ v_pc = "transcribing"
    /\ IF v_i < Len(chunk_files)
       THEN /\ \E ok \in BOOLEAN :
                  transcripts' = IF ok THEN Append(transcripts, chunk_files[v_i + 1])
                                 ELSE transcripts
            /\ v_i' = v_i + 1
            /\ v_pc' = v_pc
       ELSE /\ v_pc' = "finally"
            /\ UNCHANGED <<transcripts, v_i>>
    /\ UNCHANGED <<v_large, temp_dir, v_created, chunk_count, chunk_files,
                   v_failed, notVideo>>

\* lines 158-180: the finally block, then the return or the re-raise
Finally ==
    /\ v_pc = "finally"
    /\ temp_dir' = Cleanup(temp_dir)
    /\ v_pc' = IF v_failed THEN "raised" ELSE "returned"
    /\ UNCHANGED <<v_large, v_created, chunk_count, chunk_files, transcripts,
                   v_i, v_failed, notVideo>>

NextVideo ==
    \/ TranscribeRejected
    \/ TranscribeDirect
    \/ MakeTempDir
    \/ ProbeDuration
    \/ MakeChunk
    \/ TranscribeChunk
    \/ Finally

SpecVideo == InitVideo /\ [][NextVideo]_vars

\* C8: when the chunked branch of transcribe_video has run, the chunk
\* directory made for the file is gone once the function has returned or
\* raised, whatever happened in between.
C8_TempDirRemoved ==
    (v_pc \in {"returned", "raised"} /\ v_created) => ~temp_dir.exists

\* C8 witness: ffmpeg failed after a chunk had been written, the call raised
\* and the directory is gone
C8_Witness ==
    /\ v_pc = "raised"
    /\ v_created
    /\ chunk_files # <<>>
    /\ ~temp_dir.exists

---------------------------------------------------------------------------
\* One call of GraphSharePointClient.download_folder_files

MaxPageSize == 3

File(id) == [id |-> id, type |-> "file"]

Folder(id) == [id |-> id, type |-> "folder"]

FolderIds == {"root", "S", "T"}

\* the drives: for each folder id its children, in the order the API lists them
Drives ==
    {[f \in FolderIds |->
        IF f = "root" THEN <<File("f1"), File("f2"), Folder("S")>>
        ELSE IF f = "S" THEN <<File("f3"), Folder("T")>>
        ELSE <<File("f4"), File("f5")>>],
     [f \in FolderIds |->
        IF f = "root" THEN <<Folder("S"), File("f1")>>
        ELSE IF f = "S" THEN <<File("f2"), File("f3")>>
        ELSE <<>>],
     [f \in FolderIds |-> IF f = "root" THEN <<File("f1")>> ELSE <<>>]}

\* lines 239-269: one GET of .../children; the response holds the first page
\* and (unread) an @odata.nextLink to the rest
GetFolderItems(drive, page_size, folder_id) ==
    SubSeq(drive[folder_id], 1,
           IF Len(drive[folder_id]) < page_size THEN Len(drive[folder_id])
           ELSE page_size)

NewFrame(folder_id, items) ==
    [folder |-> folder_id, items |-> items, i |-> 1, downloaded_files |-> <<>>]

InitSharePoint ==
    /\ IdleGen
    /\ IdleCompile
    /\ IdleMain
    /\ IdleClassify
    /\ IdleVideo
    /\ IdleDiscover
    /\ IdleRender
    /\ IdleArgs
    /\ IdleAfm
    /\ IdleWorkdir
    /\ IdlePreprocess
    /\ IdleExcel
    /\ sp_pc = "call"
    /\ sp_drive \in Drives
    /\ sp_page_size \in 1..MaxPageSize
    /\ sp_recursive \in BOOLEAN
    /\ sp_stack = <<>>
    /\ sp_attempted = <<>>
    /\ sp_listings = <<>>
    /\ sp_ret = <<>>

Top == sp_stack[Len(sp_stack)]

AtItem == Top.i <= Len(Top.items)

Item == Top.items[Top.i]

Advance(frame) == [frame EXCEPT !.i = @ + 1]

\* lines 346-352: the outermost call lists its folder, or the listing raises
StartDownload ==
    /\ sp_pc = "call"
    /\ \/ LET items == GetFolderItems(sp_drive, sp_page_size, "root") IN
          /\ sp_listings' = Append(sp_listings, [folder |-> "root", items |-> items])
          /\ sp_stack' = <<NewFrame("root", items)>>
          /\ sp_pc' = "running"
       \/ /\ sp_pc' = "raised"
          /\ UNCHANGED <<sp_listings, sp_stack>>
    /\ UNCHANGED <<sp_drive, sp_page_size, sp_recursive, sp_attempted, sp_ret,
                   notSharePoint>>

\* lines 355-361: a file is downloaded, or its download fails and is skipped
DownloadFile ==
    /\ sp_pc = "running"
    /\ AtItem
    /\ Item.type = "file"
    /\ \E ok \in BOOLEAN :
          /\ sp_attempted' = Append(sp_attempted, [id |-> Item.id, ok |-> ok])
          /\ sp_stack' = [sp_stack EXCEPT ![Len(sp_stack)] =
                Advance(IF ok
                        THEN [@ EXCEPT !.downloaded_files = Append(@, Item.id)]
                        ELSE @)]
    /\ UNCHANGED <<sp_pc, sp_drive, sp_page_size, sp_recursive, sp_listings,
                   sp_ret, notSharePoint>>

\* lines 363-370: recursive call for a subfolder; its listing may raise, and
\* the exception leaves every active call
EnterFolder ==
    /\ sp_pc = "running"
    /\ AtItem
    /\ Item.type = "folder"
    /\ sp_recursive
    /\ \/ LET items == GetFolderItems(sp_drive, sp_page_size, Item.id) IN
          /\ sp_listings' = Append(sp_listings, [folder |-> Item.id, items |-> items])
          /\ sp_stack' = Append(sp_stack, NewFrame(Item.id, items))
          /\ sp_pc' = sp_pc
       \/ /\ sp_pc' = "raised"
          /\ sp_stack' = <<>>
          /\ UNCHANGED sp_listings
    /\ UNCHANGED <<sp_drive, sp_page_size, sp_recursive, sp_attempted, sp_ret,
                   notSharePoint>>

\* line 363: a subfolder, and recursive is False
SkipFolder ==
    /\ sp_pc = "running"
    /\ AtItem
    /\ Item.type = "folder"
    /\ ~sp_recursive
    /\ sp_stack' = [sp_stack EXCEPT ![Len(sp_stack)] = Advance(@)]
    /\ UNCHANGED <<sp_pc, sp_drive, sp_page_size, sp_recursive, sp_attempted,
                   sp_listings, sp_ret, notSharePoint>>

\* lines 371-374: a call returns its list; the caller extends its own
ReturnFiles ==
    /\ sp_pc = "running"
    /\ ~AtItem
    /\ IF Len(sp_stack) = 1
       THEN /\ sp_ret' = Top.downloaded_files
            /\ sp_stack' = <<>>
            /\ sp_pc' = "returned"
       ELSE /\ sp_stack' =
                [SubSeq(sp_stack, 1, Len(sp_stack) - 1)
                    EXCEPT ![Len(sp_stack) - 1] =
                        Advance([@ EXCEPT !.downloaded_files =
                                     @ \o Top.downloaded_files])]
            /\ UNCHANGED <<sp_ret, sp_pc>>
    /\ UNCHANGED <<sp_drive, sp_page_size, sp_recursive, sp_attempted,
                   sp_listings, notSharePoint>>

NextSharePoint ==
    \/ StartDownload
    \/ DownloadFile
    \/ EnterFolder
    \/ SkipFolder
    \/ ReturnFiles

SpecSharePoint == InitSharePoint /\ [][NextSharePoint]_vars

\* the files directly in a folder
FilesIn(folder_id) ==
    {sp_drive[folder_id][k].id : k \in
        {j \in 1..Len(sp_drive[folder_id]) : sp_drive[folder_id][j].type = "file"}}

SubfoldersOf(folder_id) ==
    {sp_drive[folder_id][k].id : k \in
        {j \in 1..Len(sp_drive[folder_id]) : sp_drive[folder_id][j].type = "folder"}}

\* the folders at or below the root (the drives are at most 3 levels deep)
FoldersBelowRoot ==
    {"root"} \cup SubfoldersOf("root")
        \cup UNION {SubfoldersOf(f) : f \in SubfoldersOf("root")}

AllFilesBelowRoot == UNION {FilesIn(f) : f \in FoldersBelowRoot}

AttemptedIds == {sp_attempted[k].id : k \in 1..Len(sp_attempted)}

SucceededIds == {sp_attempted[k].id : k \in {j \in 1..Len(sp_attempted) : sp_attempted[j].ok}}

\* C9: with recursive=True every file of the folder and of all nested
\* subfolders is attempted, with recursive=False only the folder's own files;
\* a failed download stops nothing, and the returned list holds exactly the
\* files whose download succeeded.
C9_EveryFileAttempted ==
    sp_pc = "returned" =>
        /\ AttemptedIds = IF sp_recursive THEN AllFilesBelowRoot ELSE FilesIn("root")
        /\ {sp_ret[k] : k \in 1..Len(sp_ret)} = SucceededIds
        /\ Len(sp_ret) = Cardinality(SucceededIds)

\* C10: get_folder_items returns all items of the folder, however many there
\* are and however the Graph API pages them.
C10_AllItemsListed ==
    \A k \in 1..Len(sp_listings) :
        sp_listings[k].items = sp_drive[sp_listings[k].folder]

---------------------------------------------------------------------------
\* One call of discover_files (discover_business_files is the same code)
\*
\* A name is a sequence of the pieces "a", "x", ".pdf", ".png", ".txt";
\* a path is the sequence of names from the directory down.

MaxTree == 3

\* line 54
extensions ==
    <<".pdf", ".xlsx", ".xls", ".docx", ".doc", ".jpeg", ".jpg", ".png">>

\* names of entries: a.pdf, a.txt, x.png
DiscoverNames == {<<"a", ".pdf">>, <<"a", ".txt">>, <<"x", ".png">>}

\* the entries below the directory: parent is 0 (the directory itself) or
\* the index of an earlier entry, which is a directory
Trees ==
    UNION {{t \in [1..k -> [parent : 0..(k - 1), name : DiscoverNames,
                            kind : {"file", "dir"}]] :
               /\ \A i \in 1..k :
                     /\ t[i].parent < i
                     /\ t[i].parent # 0 => t[t[i].parent].kind = "dir"
               /\ \A i, j \in 1..k :
                     (t[i].parent = t[j].parent /\ t[i].name = t[j].name)
                         => i = j} : k \in 0..MaxTree}

RECURSIVE PathOf(_, _)
PathOf(t, i) ==
    IF t[i].parent = 0 THEN <<t[i].name>>
    ELSE Append(PathOf(t, t[i].parent), t[i].name)

\* fnmatch of a name against "*<ext>"
MatchesExt(name, ext) == name # <<>> /\ name[Len(name)] = ext

\* directory.glob("*<ext>") (deep = FALSE: the entries of the directory
\* itself) and directory.glob("**/*<ext>") (deep = TRUE: at any depth)
Glob(t, ext, deep) ==
    {PathOf(t, i) : i \in {j \in 1..Len(t) :
                              /\ deep \/ t[j].parent = 0
                              /\ MatchesExt(t[j].name, ext)}}

\* order of the pieces as Python orders the strings
PieceRank(p) ==
    CASE p = ".pdf" -> 1 [] p = ".png" -> 2 [] p = ".txt" -> 3
      [] p = "a" -> 4 [] OTHER -> 5

RECURSIVE NameLess(_, _)
NameLess(a, b) ==
    IF a = <<>> THEN b # <<>>
    ELSE IF b = <<>> THEN FALSE
    ELSE IF Head(a) # Head(b) THEN PieceRank(Head(a)) < PieceRank(Head(b))
    ELSE NameLess(Tail(a), Tail(b))

\* PurePath.__lt__: the paths compare as their lists of parts
RECURSIVE PathLess(_, _)
PathLess(p, q) ==
    IF p = <<>> THEN q # <<>>
    ELSE IF q = <<>> THEN FALSE
    ELSE IF Head(p) # Head(q) THEN NameLess(Head(p), Head(q))
    ELSE PathLess(Tail(p), Tail(q))

\* sorted(set(files))
RECURSIVE SortedPaths(_)
SortedPaths(S) ==
    IF S = {} THEN <<>>
    ELSE LET least == CHOOSE p \in S : \A q \in S \ {p} : PathLess(p, q)
         IN <<least>> \o SortedPaths(S \ {least})

InitDiscover ==
    /\ IdleGen
    /\ IdleCompile
    /\ IdleMain
    /\ IdleClassify
    /\ IdleVideo
    /\ IdleSharePoint
    /\ IdleRender
    /\ IdleArgs
    /\ IdleAfm
    /\ IdleWorkdir
    /\ IdlePreprocess
    /\ IdleExcel
    /\ d_pc = "call"
    /\ d_tree \in Trees
    /\ d_ext = 1
    /\ d_files = EmptyBag
    /\ d_ret = <<>>

\* lines 57-59: one iteration of the loop, both globs
GlobExtension ==
    /\ d_pc = "call"
    /\ d_ext <= Len(extensions)
    /\ d_files' = d_files (+) SetToBag(Glob(d_tree, extensions[d_ext], FALSE))
                          (+) SetToBag(Glob(d_tree, extensions[d_ext], TRUE))
    /\ d_ext' = d_ext + 1
    /\ UNCHANGED <<d_pc, d_tree, d_ret, notDiscover>>

\* line 61
DiscoverReturn ==
    /\ d_pc = "call"
    /\ d_ext > Len(extensions)
    /\ d_ret' = SortedPaths(BagToSet(d_files))
    /\ d_pc' = "returned"
    /\ UNCHANGED <<d_tree, d_ext, d_files, notDiscover>>

NextDiscover == GlobExtension \/ DiscoverReturn

SpecDiscover == InitDiscover /\ [][NextDiscover]_vars

\* the files below the directory whose name ends in a listed extension
BusinessFiles ==
    {PathOf(d_tree, i) :
        i \in {j \in 1..Len(d_tree) :
                  /\ d_tree[j].kind = "file"
                  /\ \E e \in 1..Len(extensions) :
                        MatchesExt(d_tree[j].name, extensions[e])}}

\* C11: discover_files returns every file below the directory, at any
\* depth, whose name ends in one of the 8 extensions, each exactly once,
\* in sorted path order, and nothing else.
C11_ExactlyTheBusinessFiles ==
    d_pc = "returned" =>
        /\ {d_ret[i] : i \in 1..Len(d_ret)} = BusinessFiles
        /\ \A i, j \in 1..Len(d_ret) : i < j => PathLess(d_ret[i], d_ret[j])

---------------------------------------------------------------------------
\* One call of render_report
\*
\* A string is a sequence of pieces; a dict is a function from its keys.

\* what json_path may hold: nothing, a JSON array, a JSON object with some
\* of three keys
JsonFiles ==
    {[kind |-> "missing"], [kind |-> "list"]}
    \cup {[kind |-> "dict", d |-> d] :
             d \in UNION {[K -> {<<"old">>, <<>>}] :
                             K \in SUBSET {"company_name", "generated_date",
                                           "logo_base64"}}}

\* the logo file: absent, empty, or some bytes
LogoFiles == {Absent, <<>>, <<"b1">>, <<"b1", "b2">>}

\* base64.b64encode(...).decode(), byte by byte
Base64(bytes) ==
    [i \in 1..Len(bytes) |-> IF bytes[i] = "b1" THEN "YjE" ELSE "YjI"]

\* lines 15-20
load_logo(logo) == IF logo # Absent THEN Base64(logo) ELSE <<>>

\* mutant: the key is set only when the dict does not have it yet
SetItem_KeepExisting(d, key, value) ==
    [k \in DOMAIN d \cup {key} |-> IF k \in DOMAIN d THEN d[k] ELSE value]

\* data[key] = value
SetItem(d, key, value) ==
    [k \in DOMAIN d \cup {key} |-> IF k = key THEN value ELSE d[k]]

InitRender ==
    /\ IdleGen
    /\ IdleCompile
    /\ IdleMain
    /\ IdleClassify
    /\ IdleVideo
    /\ IdleSharePoint
    /\ IdleDiscover
    /\ IdleArgs
    /\ IdleAfm
    /\ IdleWorkdir
    /\ IdlePreprocess
    /\ IdleExcel
    /\ r_pc = "call"
    /\ r_json \in JsonFiles
    /\ r_template \in BOOLEAN
    /\ r_logo \in LogoFiles
    /\ r_now \in {<<"d1">>, <<"d2">>}
    /\ r_data = [kind |-> "None"]
    /\ r_html = [exists |-> FALSE, context |-> <<>>]

\* lines 26-32: the JSON and the template are read; open raises on a file
\* that is not there
RenderLoad ==
    /\ r_pc = "call"
    /\ IF r_json.kind = "missing" \/ ~r_template
       THEN r_pc' = "raised" /\ r_data' = r_data
       ELSE r_pc' = "loaded" /\ r_data' = r_json
    /\ UNCHANGED <<r_json, r_template, r_logo, r_now, r_html, notRender>>

\* lines 34-46: the two keys are set, the template is rendered with the
\* dict as its context and the result is saved; item assignment with a
\* string index raises on a list
RenderWrite ==
    /\ r_pc = "loaded"
    /\ IF r_data.kind # "dict"
       THEN r_pc' = "raised" /\ UNCHANGED <<r_data, r_html>>
       ELSE LET logo_base64 == load_logo(r_logo)
                d1 == SetItem(r_data.d, "generated_date", r_now)
                d2 == SetItem(d1, "logo_base64", logo_base64)
            IN /\ r_data' = [kind |-> "dict", d |-> d2]
               /\ r_html' = [exists |-> TRUE, context |-> d2]
               /\ r_pc' = "returned"
    /\ UNCHANGED <<r_json, r_template, r_logo, r_now, notRender>>

NextRender == RenderLoad \/ RenderWrite

SpecRender == InitRender /\ [][NextRender]_vars

\* C12: whenever render_report renders the template, the context holds
\* generated_date = today's date and logo_base64 = the encoded logo, whatever
\* the input JSON held under these keys, every other key is passed as it
\* was loaded, and a missing logo file gives logo_base64 = "" and no error:
\* the call raises only for a missing JSON or template file or a JSON
\* document that is not an object.
C12_DateAndLogoPassed ==
    /\ r_pc = "returned" =>
          /\ r_html.exists
          /\ DOMAIN r_html.context = DOMAIN r_json.d \cup {"generated_date", "logo_base64"}
          /\ r_html.context["generated_date"] = r_now
          /\ r_html.context["logo_base64"] =
                 (IF r_logo = Absent THEN <<>> ELSE Base64(r_logo))
          /\ \A k \in DOMAIN r_json.d \ {"generated_date", "logo_base64"} :
                 r_html.context[k] = r_json.d[k]
    /\ r_pc = "raised" =>
          r_json.kind # "dict" \/ ~r_template

\* a JSON that already has both keys, with other values, and no logo file
C12_Witness ==
    /\ r_pc = "returned"
    /\ r_logo = Absent
    /\ {"generated_date", "logo_base64"} \subseteq DOMAIN r_json.d
    /\ r_json.d["generated_date"] = <<"old">>
    /\ r_json.d["logo_base64"] = <<"old">>
    /\ r_now = <<"d2">>

---------------------------------------------------------------------------
\* main, lines 415-473: the command line
\*
\* None is the string "<None>"; "v" is an AFM, "p" a path.

MaxArgs == 3

ArgLists == UNION {[1..k -> {"--afm", "v", "p", ""}] : k \in 0..MaxArgs}

\* what the user may type at a prompt
Answers == {"1", " 1 ", "2", "3", "v", " p ", "", " "}

\* str.strip()
Strip(s) ==
    CASE s = " 1 " -> "1" [] s = " p " -> "p" [] s = " " -> "" [] OTHER -> s

\* mutant: only None is false
StrTruthy_NoneOnly(s) == s # "<None>"

\* truth value of a str or None
StrTruthy(s) == s \notin {"", "<None>"}

InitArgs ==
    /\ IdleGen
    /\ IdleCompile
    /\ IdleMain
    /\ IdleClassify
    /\ IdleVideo
    /\ IdleSharePoint
    /\ IdleDiscover
    /\ IdleRender
    /\ IdleAfm
    /\ IdleWorkdir
    /\ IdlePreprocess
    /\ IdleExcel
    /\ a_pc = "parse"
    /\ argv \in ArgLists
    /\ a_i = 1
    /\ afm_mode = FALSE
    /\ afm_number = "<None>"
    /\ directory_path = "<None>"
    /\ a_prompted = FALSE
    /\ a_mode = "none"
    /\ a_target = "<None>"
    /\ a_status = 0

\* lines 421-430: one iteration of the while loop
ParseArg ==
    /\ a_pc = "parse"
    /\ a_i <= Len(argv)
    /\ IF argv[a_i] = "--afm" /\ a_i + 1 <= Len(argv)
       THEN /\ afm_mode' = TRUE
            /\ afm_number' = argv[a_i + 1]
            /\ a_i' = a_i + 2
            /\ UNCHANGED directory_path
       ELSE /\ directory_path' = argv[a_i]
            /\ a_i' = a_i + 1
            /\ UNCHANGED <<afm_mode, afm_number>>
    /\ UNCHANGED <<a_pc, argv, a_prompted, a_mode, a_target, a_status, notArgs>>

\* lines 433-448: the interactive prompt
Interactive ==
    /\ a_pc = "parse"
    /\ a_i > Len(argv)
    /\ ~afm_mode /\ ~StrTruthy(directory_path)
    /\ a_prompted' = TRUE
    /\ \E typed1, typed2 \in Answers :
         LET choice == Strip(typed1)
             answer == Strip(typed2)
         IN IF choice = "1"
            THEN /\ afm_number' = answer
                 /\ afm_mode' = StrTruthy(answer)
                 /\ a_pc' = IF StrTruthy(answer) THEN "mode" ELSE "exit"
                 /\ UNCHANGED directory_path
            ELSE IF choice = "2"
            THEN /\ directory_path' = answer
                 /\ a_pc' = IF StrTruthy(answer) THEN "mode" ELSE "exit"
                 /\ UNCHANGED <<afm_mode, afm_number>>
            ELSE /\ a_pc' = "exit"
                 /\ UNCHANGED <<afm_mode, afm_number, directory_path>>
    /\ a_status' = IF a_pc' = "exit" THEN 1 ELSE 0
    /\ UNCHANGED <<argv, a_i, a_mode, a_target, notArgs>>

\* lines 463-473: SharePoint download, or the directory given; both end the
\* run with status 1 when nothing is found
DetermineDirectory ==
    /\ \/ a_pc = "mode"
       \/ /\ a_pc = "parse"
          /\ a_i > Len(argv)
          /\ afm_mode \/ StrTruthy(directory_path)
    /\ a_mode' = IF afm_mode THEN "sharepoint" ELSE "direct"
    /\ a_target' = IF afm_mode THEN afm_number ELSE directory_path
    /\ \E found \in BOOLEAN :
          /\ a_pc' = IF found THEN "running" ELSE "exit"
          /\ a_status' = IF found THEN 0 ELSE 1
    /\ UNCHANGED <<argv, a_i, afm_mode, afm_number, directory_path, a_prompted,
                   notArgs>>

NextArgs == ParseArg \/ Interactive \/ DetermineDirectory

SpecArgs == InitArgs /\ [][NextArgs]_vars

\* position i of argv is read as the flag: it holds "--afm", something
\* follows it, and it is not itself the value of a flag before it
RECURSIVE IsFlag(_)
IsFlag(i) ==
    /\ i >= 1
    /\ i < Len(argv)
    /\ argv[i] = "--afm"
    /\ ~IsFlag(i - 1)

FlagPositions == {i \in 1..Len(argv) : IsFlag(i)}

\* the positions that are neither a flag nor a flag's value
PathPositions == {i \in 1..Len(argv) : ~IsFlag(i) /\ ~IsFlag(i - 1)}

Last(S) == CHOOSE i \in S : \A j \in S : j <= i

ArgsRead == a_pc # "parse" \/ a_i > Len(argv)

\* a string with something other than blanks in it
NonBlank(s) == s \notin {"", " ", "<None>"}

\* C13: "--afm <value>" selects SharePoint mode with that AFM (the last
\* such pair wins); every other argument is taken as the folder path (the
\* last one wins), a trailing "--afm" included; SharePoint mode is chosen
\* whenever "--afm" is followed by another argument anywhere; the prompt
\* is shown when there are no arguments, and an invalid choice or a blank
\* answer then exits with status 1.
C13_ModeSelection ==
    /\ (ArgsRead /\ ~a_prompted) =>
          /\ afm_mode = (\E i \in 1..Len(argv) :
                            argv[i] = "--afm" /\ i < Len(argv))
          /\ afm_mode = (FlagPositions # {})
          /\ afm_number = IF FlagPositions = {} THEN "<None>"
                          ELSE argv[Last(FlagPositions) + 1]
          /\ directory_path = IF PathPositions = {} THEN "<None>"
                              ELSE argv[Last(PathPositions)]
          /\ (argv # <<>> /\ argv[Len(argv)] = "--afm" /\ ~IsFlag(Len(argv) - 1))
                 => directory_path = "--afm"
    /\ a_mode = "sharepoint" => (afm_mode /\ a_target = afm_number)
    /\ a_mode = "direct" =>
          (~afm_mode /\ a_target = directory_path /\ a_target \notin {"", "<None>"})
    /\ (a_mode # "none" /\ ~a_prompted) =>
          a_mode = IF FlagPositions # {} THEN "sharepoint" ELSE "direct"
    /\ (argv = <<>> /\ a_pc # "parse") => a_prompted
    /\ a_prompted =>
          /\ a_pc = "exit" => a_status = 1
          /\ a_mode = "sharepoint" => NonBlank(afm_number)
          /\ a_mode = "direct" => NonBlank(directory_path)
    /\ (a_prompted /\ a_pc = "mode") =>
          \/ afm_mode /\ NonBlank(afm_number)
          \/ ~afm_mode /\ NonBlank(directory_path)

\* the flag with its value, then a trailing flag: SharePoint mode although
\* the last argument became the folder path
C13_Witness ==
    /\ argv = <<"--afm", "v", "--afm">>
    /\ a_mode = "sharepoint"
    /\ a_target = "v"
    /\ directory_path = "--afm"

---------------------------------------------------------------------------
\* One call of extract_afm
\*
\* A string is a sequence of pieces: "D8" and "D9" are runs of 8 and of 9
\* digits, " " is a blank, "-" a hyphen, "mentoring" that word. None is
\* <<"<None>">>.

MaxName == 5

AfmDigits == 9

FolderNames ==
    UNION {[1..k -> {"D8", "D9", " ", "-", "mentoring"}] : k \in 0..MaxName}

\* the directories: one named 'mentoring' below any folder, and any folder
\* below one whose name is an AFM
Directories ==
    {[name |-> <<"mentoring">>, parent |-> p] : p \in FolderNames}
    \cup {[name |-> n, parent |-> <<"D9">>] : n \in FolderNames}

ProvidedAfms == {<<"<None>">>, <<>>, <<"D8">>}

\* line 102: dir_name.split(' - ')
RECURSIVE SplitFrom(_, _)
SplitFrom(s, part) ==
    IF s = <<>> THEN <<part>>
    ELSE IF Len(s) >= 3 /\ SubSeq(s, 1, 3) = <<" ", "-", " ">>
    THEN <<part>> \o SplitFrom(SubSeq(s, 4, Len(s)), <<>>)
    ELSE SplitFrom(Tail(s), Append(part, Head(s)))

Split(s) == SplitFrom(s, <<>>)

\* mutant: the part is taken as it is
StripPart_Identity(part) == part

\* line 104: part.strip()
RECURSIVE StripPart(_)
StripPart(part) ==
    IF part = <<>> THEN part
    ELSE IF Head(part) = " " THEN StripPart(Tail(part))
    ELSE IF part[Len(part)] = " " THEN StripPart(SubSeq(part, 1, Len(part) - 1))
    ELSE part

\* the number of digits a string is made of, -1 when something else is in it
RECURSIVE DigitCount(_)
DigitCount(s) ==
    IF s = <<>> THEN 0
    ELSE IF Head(s) \notin {"D8", "D9"} THEN -1
    ELSE LET rest == DigitCount(Tail(s)) IN
         IF rest < 0 THEN -1
         ELSE rest + (IF Head(s) = "D8" THEN AfmDigits - 1 ELSE AfmDigits)

\* line 104: re.match(r'^\d{9}$', s)
MatchesAfm(s) == DigitCount(s) = AfmDigits

\* lines 103-108: the loop over the parts and the fallback
RECURSIVE FirstAfm(_)
FirstAfm(parts) ==
    IF parts = <<>> THEN <<"unknown">>
    ELSE IF MatchesAfm(StripPart(Head(parts))) THEN StripPart(Head(parts))
    ELSE FirstAfm(Tail(parts))

\* lines 93-108
extract_afm(directory, provided_afm) ==
    IF provided_afm \notin {<<"<None>">>, <<>>} THEN provided_afm
    ELSE LET dir_name == IF directory.name = <<"mentoring">>
                         THEN directory.parent ELSE directory.name
         IN FirstAfm(Split(dir_name))

InitAfm ==
    /\ IdleGen
    /\ IdleCompile
    /\ IdleMain
    /\ IdleClassify
    /\ IdleVideo
    /\ IdleSharePoint
    /\ IdleDiscover
    /\ IdleRender
    /\ IdleArgs
    /\ IdleWorkdir
    /\ IdlePreprocess
    /\ IdleExcel
    /\ e_pc = "call"
    /\ e_directory \in Directories
    /\ e_provided \in ProvidedAfms
    /\ e_ret = <<>>

ExtractAfmCall ==
    /\ e_pc = "call"
    /\ e_ret' = extract_afm(e_directory, e_provided)
    /\ e_pc' = "returned"
    /\ UNCHANGED <<e_directory, e_provided, notAfm>>

NextAfm == ExtractAfmCall

SpecAfm == InitAfm /\ [][NextAfm]_vars

\* the name extract_afm looks at
FolderName ==
    IF e_directory.name = <<"mentoring">> THEN e_directory.parent
    ELSE e_directory.name

\* the ' - '-separated parts of that name
NameParts == Split(FolderName)

Provided == e_provided \notin {<<"<None>">>, <<>>}

\* the part without the blanks around it
Trimmed(part) ==
    LET inked == {i \in 1..Len(part) : part[i] # " "} IN
    IF inked = {} THEN <<>>
    ELSE SubSeq(part, CHOOSE i \in inked : \A j \in inked : i <= j,
                      CHOOSE i \in inked : \A j \in inked : j <= i)

\* of the strings made of these pieces only the run "D9" is 9 digits
NineDigits(s) == s = <<"D9">>

\* C18 as stated: without a provided AFM the result is the first part of
\* the folder name that consists of exactly 9 digits, "unknown" when no
\* part does.
C18_FirstNineDigitPart ==
    (e_pc = "returned" /\ ~Provided) =>
        LET hits == {i \in 1..Len(NameParts) : NineDigits(NameParts[i])} IN
        e_ret = IF hits = {} THEN <<"unknown">>
                ELSE NameParts[CHOOSE i \in hits : \A j \in hits : i <= j]

\* C18, amended: a provided AFM is returned verbatim; without one the
\* result is the first part of the folder name (the parent's name for a
\* directory named 'mentoring') that consists of exactly 9 digits once the
\* blanks around it are removed, returned without those blanks, "unknown"
\* when there is no such part; so it is a 9-digit string or "unknown".
C18_FirstTrimmedNineDigitPart ==
    e_pc = "returned" =>
        IF Provided THEN e_ret = e_provided
        ELSE LET hits == {i \in 1..Len(NameParts) :
                             NineDigits(Trimmed(NameParts[i]))} IN
             /\ e_ret = IF hits = {} THEN <<"unknown">>
                        ELSE Trimmed(NameParts[CHOOSE i \in hits :
                                                  \A j \in hits : i <= j])
             /\ e_ret \in {<<"D9">>, <<"unknown">>}

\* 'mentoring' below a folder whose second part is an AFM with a blank
\* before it
C18_Witness ==
    /\ e_pc = "returned"
    /\ e_provided = <<>>
    /\ e_directory.name = <<"mentoring">>
    /\ e_directory.parent = <<" ", "-", " ", " ", "D9">>
    /\ e_ret = <<"D9">>

---------------------------------------------------------------------------
\* main, lines 498-546: the working directory and the saved classification
\*
\* A path is the sequence of its components.

MaxClassified == 2

\* the source directory of direct-folder mode, and working_dir/<afm>_<time>
SourceDir == <<"home", "biz">>

WorkingDir == <<"working_dir", "afm_time">>

\* what discover_files may return: paths below the directory, sorted
FoundFiles(directory) ==
    {SelectSeq(<<directory \o <<"a.pdf">>, directory \o <<"sub", "a.pdf">>,
                 directory \o <<"sub", "b.xlsx">>>>, LAMBDA p : p \in chosen) :
        chosen \in SUBSET {directory \o <<"a.pdf">>,
                           directory \o <<"sub", "a.pdf">>,
                           directory \o <<"sub", "b.xlsx">>}}

\* what classify_files_with_llm may return for these files: lists of input
\* files under the keys 1..11 (here under the first and the last key)
Classifications(fs) ==
    LET lists == UNION {[1..k -> {fs[i] : i \in 1..Len(fs)}] :
                           k \in 0..MaxClassified}
    IN {[s \in 1..NumSections |->
            IF s = 1 THEN first ELSE IF s = NumSections THEN last ELSE <<>>] :
           first \in lists, last \in lists}

\* mutant: only the file name is kept
RelativeTo_NameOnly(path, base) ==
    [raised |-> FALSE, rel |-> <<path[Len(path)]>>]

\* PurePath.relative_to: ValueError unless base is a prefix of path
RelativeTo(path, base) ==
    IF Len(base) <= Len(path) /\ SubSeq(path, 1, Len(base)) = base
    THEN [raised |-> FALSE, rel |-> SubSeq(path, Len(base) + 1, Len(path))]
    ELSE [raised |-> TRUE, rel |-> <<>>]

InitWorkdir ==
    /\ IdleGen
    /\ IdleCompile
    /\ IdleMain
    /\ IdleClassify
    /\ IdleVideo
    /\ IdleSharePoint
    /\ IdleDiscover
    /\ IdleRender
    /\ IdleArgs
    /\ IdleAfm
    /\ IdlePreprocess
    /\ IdleExcel
    /\ w_pc = "start"
    /\ w_afm_mode \in BOOLEAN
    \* lines 464-469: download_from_sharepoint returns the working directory
    /\ w_directory = IF w_afm_mode THEN WorkingDir ELSE SourceDir
    /\ w_files \in FoundFiles(w_directory)
    /\ w_classified \in Classifications(w_files)
    /\ w_file_classification = w_classified
    /\ w_output_dir = <<>>
    /\ w_i = 1
    \* SharePoint mode: the files were downloaded into the directory
    /\ w_disk = IF w_afm_mode THEN {w_files[i] : i \in 1..Len(w_files)} ELSE {}
    /\ w_mapping = [i \in 1..NumSections |-> <<>>]

\* lines 499-503: SharePoint mode
UseDownloadDir ==
    /\ w_pc = "start"
    /\ w_afm_mode
    /\ w_output_dir' = w_directory
    /\ w_pc' = "write"
    /\ UNCHANGED <<w_afm_mode, w_directory, w_files, w_classified,
                   w_file_classification, w_i, w_disk, w_mapping, notWorkdir>>

\* lines 505-518: direct-folder mode, the working directory is made
MakeWorkingDir ==
    /\ w_pc = "start"
    /\ ~w_afm_mode
    /\ w_output_dir' = WorkingDir
    /\ w_pc' = "copy"
    /\ UNCHANGED <<w_afm_mode, w_directory, w_files, w_classified,
                   w_file_classification, w_i, w_disk, w_mapping, notWorkdir>>

\* lines 519-525: one file is copied, or shutil.copy2 raises
CopyFile ==
    /\ w_pc = "copy"
    /\ w_i <= Len(w_files)
    /\ LET rel_path == RelativeTo(w_files[w_i], w_directory) IN
       \E copied \in BOOLEAN :
          IF rel_path.raised \/ ~copied
          THEN w_pc' = "raised" /\ UNCHANGED <<w_i, w_disk>>
          ELSE /\ w_disk' = w_disk \cup {w_output_dir \o rel_path.rel}
               /\ w_i' = w_i + 1
               /\ w_pc' = "copy"
    /\ UNCHANGED <<w_afm_mode, w_directory, w_files, w_classified,
                   w_file_classification, w_output_dir, w_mapping, notWorkdir>>

\* lines 529-538: the classified paths are put below output_dir
Remap ==
    /\ w_pc = "copy"
    /\ w_i > Len(w_files)
    /\ LET bad == \E s \in 1..NumSections :
                     \E k \in 1..Len(w_file_classification[s]) :
                        RelativeTo(w_file_classification[s][k],
                                   w_directory).raised
       IN IF bad
          THEN w_pc' = "raised" /\ UNCHANGED w_file_classification
          ELSE /\ w_file_classification' =
                     [s \in 1..NumSections |->
                         [k \in 1..Len(w_file_classification[s]) |->
                             w_output_dir
                             \o RelativeTo(w_file_classification[s][k],
                                           w_directory).rel]]
               /\ w_pc' = "write"
    /\ UNCHANGED <<w_afm_mode, w_directory, w_files, w_classified,
                   w_output_dir, w_i, w_disk, w_mapping, notWorkdir>>

\* lines 540-546: section_file_mapping.json, with paths relative to
\* output_dir
WriteMapping ==
    /\ w_pc = "write"
    /\ LET bad == \E s \in 1..NumSections :
                     \E k \in 1..Len(w_file_classification[s]) :
                        RelativeTo(w_file_classification[s][k],
                                   w_output_dir).raised
       IN IF bad
          THEN w_pc' = "raised" /\ UNCHANGED w_mapping
          ELSE /\ w_mapping' =
                     [s \in 1..NumSections |->
                         [k \in 1..Len(w_file_classification[s]) |->
                             RelativeTo(w_file_classification[s][k],
                                        w_output_dir).rel]]
               /\ w_pc' = "written"
    /\ UNCHANGED <<w_afm_mode, w_directory, w_files, w_classified,
                   w_file_classification, w_output_dir, w_i, w_disk,
                   notWorkdir>>

NextWorkdir ==
    \/ UseDownloadDir
    \/ MakeWorkingDir
    \/ CopyFile
    \/ Remap
    \/ WriteMapping

SpecWorkdir == InitWorkdir /\ [][NextWorkdir]_vars

\* p lies inside the directory d
Inside(p, d) == Len(d) < Len(p) /\ \A i \in 1..Len(d) : p[i] = d[i]

\* the part of p after its first n components
Below(p, n) == [i \in 1..(Len(p) - n) |-> p[i + n]]

\* C19: when section_file_mapping.json is about to be written, and after,
\* every path of file_classification lies inside output_dir, where the
\* file is; in direct-folder mode it is output_dir joined with the
\* classified source path taken relative to the source directory, in
\* SharePoint mode output_dir is the source directory and the paths are
\* the classified ones; writing the file never fails on a path.
C19_PathsInsideOutputDir ==
    /\ w_pc \in {"write", "written"} =>
          \A s \in 1..NumSections :
             /\ Len(w_file_classification[s]) = Len(w_classified[s])
             /\ \A k \in 1..Len(w_classified[s]) :
                   LET p == w_file_classification[s][k] IN
                   /\ Inside(p, w_output_dir)
                   /\ p \in w_disk
                   /\ p = IF w_afm_mode THEN w_classified[s][k]
                          ELSE w_output_dir
                               \o Below(w_classified[s][k], Len(w_directory))
    /\ (w_pc \in {"write", "written"} /\ w_afm_mode) =>
          w_output_dir = w_directory
    /\ w_pc = "written" =>
          \A s \in 1..NumSections :
             \A k \in 1..Len(w_classified[s]) :
                w_mapping[s][k] = Below(w_classified[s][k], Len(w_directory))
    /\ w_pc = "raised" => (~w_afm_mode /\ w_i <= Len(w_files))

\* direct-folder mode, a file of a sub-directory classified twice
C19_Witness ==
    /\ w_pc = "written"
    /\ ~w_afm_mode
    /\ w_classified[1] = <<SourceDir \o <<"sub", "a.pdf">>>>
    /\ w_classified[NumSections] =
           <<SourceDir \o <<"a.pdf">>, SourceDir \o <<"sub", "a.pdf">>>>
    /\ w_mapping[1] = <<<<"sub", "a.pdf">>>>

---------------------------------------------------------------------------
\* preprocess_documents.py: extract_excel_data, assess_document_quality and
\* preprocess_document
\*
\* A sheet has one column; a row is the value of its cell, "<None>" for an
\* empty cell and "0" for the number 0. A text is the sequence of its
\* blank-separated words, and a keyword occurs in it when its words are
\* consecutive words of the text.

MaxSheetRows == 3

TableDataLimit == 100

HasMoreRowsLimit == 100

Suffixes == {".xlsx", ".XLSX", ".xls", ".pdf", ".docx", ".doc", ".txt", ""}

CellValues ==
    {"<None>", "0", "Market", "SWOT", "action", "plan", "forecast", "notes"}

Sheets == UNION {[1..n -> CellValues] : n \in 0..MaxSheetRows}

\* str.lower
lower(s) ==
    CASE s = ".XLSX" -> ".xlsx"
      [] s = "Market" -> "market"
      [] s = "SWOT" -> "swot"
      [] OTHER -> s

\* lines 32-35: the rows with a cell that is not None
data_rows(rows) == SelectSeq(rows, LAMBDA row : row # "<None>")

\* lines 37-44: the rows after the first one, which gives the column names;
\* a record of the one-column frame is given by its value
table_data(drows) == IF drows # <<>> THEN Tail(drows) ELSE <<>>

\* lines 89-98; comments, formulas and key_figures are lists that nothing
\* below reads
sheet_info(drows) ==
    [table_data |->
         SubSeq(table_data(drows), 1,
                IF Len(table_data(drows)) < TableDataLimit
                THEN Len(table_data(drows)) ELSE TableDataLimit),
     has_more_rows |-> Len(drows) > HasMoreRowsLimit]

\* lines 20-102, for a workbook of one sheet
extract_excel_data(rows) ==
    [sheet_count |-> 1, sheets |-> <<sheet_info(data_rows(rows))>>]

\* lines 207-211: the truthy values of every kept record
full_text(excel_data) ==
    SelectSeq(excel_data.sheets[1].table_data, LAMBDA v : v # "0")

\* lines 172-177, in the order of the dict
business_elements ==
    <<[element |-> "financial_projections",
       keywords |-> {<<"προβλέψεις">>, <<"projections">>, <<"forecast">>}],
      [element |-> "swot_analysis",
       keywords |-> {<<"swot">>, <<"δυνατά", "σημεία">>, <<"strengths">>}],
      [element |-> "market_analysis",
       keywords |-> {<<"αγορά">>, <<"market">>, <<"ανταγωνισμός">>,
                     <<"competition">>}],
      [element |-> "action_plan",
       keywords |-> {<<"δράσεις">>, <<"action", "plan">>, <<"ημερομηνία">>,
                     <<"deadline">>}]>>

\* keyword in text
Occurs(keyword, text) ==
    \E i \in 1..(Len(text) - Len(keyword) + 1) :
        SubSeq(text, i, i + Len(keyword) - 1) = keyword

\* dict.get(key, default)
dict_get(d, key, default) == IF key \in DOMAIN d THEN d[key] ELSE default

\* lines 163-167: the keys of structured_data with a falsy value
empty_fields(data) ==
    IF "structured_data" \in DOMAIN data
    THEN SelectSeq(<<"sheet_count", "sheets">>,
                   LAMBDA k : IF k = "sheet_count"
                              THEN data["structured_data"].sheet_count = 0
                              ELSE data["structured_data"].sheets = <<>>)
    ELSE <<>>

\* lines 158-185; an observation f"{verdict} {element.replace('_', ' ')}"
\* is given by its verdict and its element
assess_document_quality(data) ==
    LET text == [i \in 1..Len(dict_get(data, "full_text", <<>>)) |->
                    lower(dict_get(data, "full_text", <<>>)[i])]
    IN (IF empty_fields(data) # <<>>
        THEN <<[verdict |-> "Missing data in fields",
                element |-> empty_fields(data)[1]]>>
        ELSE <<>>)
       \o [i \in 1..Len(business_elements) |->
             [verdict |-> IF \E keyword \in business_elements[i].keywords :
                                Occurs(keyword, text)
                          THEN "Contains" ELSE "Missing",
              element |-> business_elements[i].element]]

\* mutant: the handler records the status only
ExceptionHandler_StatusOnly(res, e) ==
    SetItem(res, "extraction_status", "error")

\* lines 230-232
ExceptionHandler(res, e) ==
    SetItem(SetItem(res, "extraction_status", "error"), "error_message", e)

InitPreprocess ==
    /\ IdleGen
    /\ IdleCompile
    /\ IdleMain
    /\ IdleClassify
    /\ IdleVideo
    /\ IdleSharePoint
    /\ IdleDiscover
    /\ IdleRender
    /\ IdleArgs
    /\ IdleAfm
    /\ IdleWorkdir
    /\ IdleExcel
    /\ p_pc = "call"
    /\ p_suffix \in Suffixes
    /\ p_exists \in BOOLEAN
    \* load_workbook refuses the .xls format, and reads no other file here
    /\ p_readable \in IF lower(p_suffix) = ".xlsx" THEN BOOLEAN ELSE {FALSE}
    /\ p_rows \in IF p_readable THEN Sheets ELSE {<<>>}
    /\ p_full_text = <<>>
    /\ p_result = <<>>

\* lines 190-198: file_path.stat() raises for a missing file, outside the try;
\* filename, file_size_kb and the two dates are read by nothing below
PreprocessStat ==
    /\ p_pc = "call"
    /\ IF p_exists
       THEN /\ p_result' = SetItem(p_result, "file_type", lower(p_suffix))
            /\ p_pc' = "try"
       ELSE /\ p_pc' = "raised"
            /\ UNCHANGED p_result
    /\ UNCHANGED <<p_suffix, p_exists, p_readable, p_rows, p_full_text>>
    /\ UNCHANGED notPreprocess

\* lines 201-213 and 227-234; key_excerpts is given by the text it is
\* extracted from
PreprocessExcel ==
    /\ p_pc = "try"
    /\ lower(p_suffix) \in {".xlsx", ".xls"}
    /\ IF p_readable
       THEN LET excel_data == extract_excel_data(p_rows)
                extracted ==
                    SetItem(SetItem(SetItem(SetItem(p_result,
                        "structured_data", excel_data),
                        "extraction_status", "success"),
                        "full_text_preview", full_text(excel_data)),
                        "key_excerpts", full_text(excel_data))
            IN /\ p_full_text' = full_text(excel_data)
               /\ p_result' = SetItem(extracted, "quality_observations",
                                      assess_document_quality(extracted))
       ELSE /\ p_result' = ExceptionHandler(p_result, "<str(e)>")
            /\ UNCHANGED p_full_text
    /\ p_pc' = "returned"
    /\ UNCHANGED <<p_suffix, p_exists, p_readable, p_rows>>
    /\ UNCHANGED notPreprocess

\* lines 215-217 and 227-234
PreprocessPdf ==
    /\ p_pc = "try"
    /\ lower(p_suffix) = ".pdf"
    /\ p_result' = SetItem(SetItem(p_result,
                       "structured_data", [requires_processing |-> TRUE]),
                       "extraction_status", "requires_claude_skills")
    /\ p_pc' = "returned"
    /\ UNCHANGED <<p_suffix, p_exists, p_readable, p_rows, p_full_text>>
    /\ UNCHANGED notPreprocess

\* lines 219-221 and 227-234
PreprocessDocx ==
    /\ p_pc = "try"
    /\ lower(p_suffix) \in {".docx", ".doc"}
    /\ p_result' = SetItem(SetItem(p_result,
                       "structured_data", [requires_processing |-> TRUE]),
                       "extraction_status", "requires_claude_skills")
    /\ p_pc' = "returned"
    /\ UNCHANGED <<p_suffix, p_exists, p_readable, p_rows, p_full_text>>
    /\ UNCHANGED notPreprocess

\* lines 223-224 and 227-234
PreprocessUnsupported ==
    /\ p_pc = "try"
    /\ lower(p_suffix) \notin {".xlsx", ".xls", ".pdf", ".docx", ".doc"}
    /\ p_result' = SetItem(p_result, "extraction_status", "unsupported_format")
    /\ p_pc' = "returned"
    /\ UNCHANGED <<p_suffix, p_exists, p_readable, p_rows, p_full_text>>
    /\ UNCHANGED notPreprocess

NextPreprocess ==
    \/ PreprocessStat
    \/ PreprocessExcel
    \/ PreprocessPdf
    \/ PreprocessDocx
    \/ PreprocessUnsupported

SpecPreprocess == InitPreprocess /\ [][NextPreprocess]_vars

\* the status each kind of file may get
StatusesOf(suffix) ==
    IF lower(suffix) \in {".xlsx", ".xls"} THEN {"success", "error"}
    ELSE IF lower(suffix) \in {".pdf", ".docx", ".doc"}
         THEN {"requires_claude_skills"}
         ELSE {"unsupported_format"}

\* C21: a call of preprocess_document that has got past the file's stat
\* returns a result, also when the extraction raised; the result has an
\* extraction_status, which is success or error for an Excel file,
\* requires_claude_skills for a PDF, DOC or DOCX file and unsupported_format
\* for any other file, and it has an error_message exactly when the status
\* is error.
C21_StatusAlwaysSet ==
    /\ p_pc = "raised" => ~p_exists
    /\ p_pc = "returned" =>
          /\ "extraction_status" \in DOMAIN p_result
          /\ p_result["extraction_status"] \in StatusesOf(p_suffix)
          /\ ("error_message" \in DOMAIN p_result) <=>
                (p_result["extraction_status"] = "error")

C21_Witness ==
    /\ p_pc = "returned"
    /\ lower(p_suffix) = ".xlsx"
    /\ ~p_readable
    /\ p_result["extraction_status"] = "error"
    /\ "error_message" \in DOMAIN p_result
    /\ "structured_data" \notin DOMAIN p_result

\* the extracted text of the document, in lower case
ExtractedText == [i \in 1..Len(p_full_text) |-> lower(p_full_text[i])]

Observed(verdict, element) ==
    \E i \in 1..Len(p_result["quality_observations"]) :
        p_result["quality_observations"][i] =
            [verdict |-> verdict, element |-> element]

\* C22: for an Excel document that preprocess_document has extracted,
\* quality_observations holds "Contains <element>" for every business element
\* one of whose keywords occurs in the extracted text, and holds
\* "Missing <element>" only for an element none of whose keywords occurs
\* in it.
C22_ObservationsFollowText ==
    (p_pc = "returned" /\ p_result["extraction_status"] = "success") =>
        \A i \in 1..Len(business_elements) :
            LET occurs == \E keyword \in business_elements[i].keywords :
                              Occurs(keyword, ExtractedText)
            IN /\ occurs => Observed("Contains", business_elements[i].element)
               /\ Observed("Missing", business_elements[i].element) => ~occurs

---------------------------------------------------------------------------
\* extract_excel_data, lines 27-100: one sheet, row by row

MaxRows == 102

InitExcel ==
    /\ IdleGen
    /\ IdleCompile
    /\ IdleMain
    /\ IdleClassify
    /\ IdleVideo
    /\ IdleSharePoint
    /\ IdleDiscover
    /\ IdleRender
    /\ IdleArgs
    /\ IdleAfm
    /\ IdleWorkdir
    /\ IdlePreprocess
    /\ x_pc = "rows"
    /\ x_row = 0
    /\ x_data_rows = <<>>
    /\ x_sheet_info = [table_data |-> <<>>, has_more_rows |-> FALSE]

\* lines 33-35: the next row of the sheet, kept unless its cell is None
ExcelIterRow ==
    /\ x_pc = "rows"
    /\ x_row < MaxRows
    /\ \E row \in {"<None>", "notes"} :
          x_data_rows' = IF row # "<None>" THEN Append(x_data_rows, row)
                         ELSE x_data_rows
    /\ x_row' = x_row + 1
    /\ UNCHANGED <<x_pc, x_sheet_info>>
    /\ UNCHANGED notExcel

\* lines 37-100, once the sheet has no more rows
ExcelSheetInfo ==
    /\ x_pc = "rows"
    /\ x_sheet_info' = sheet_info(x_data_rows)
    /\ x_pc' = "returned"
    /\ UNCHANGED <<x_row, x_data_rows>>
    /\ UNCHANGED notExcel

NextExcel ==
    \/ ExcelIterRow
    \/ ExcelSheetInfo

SpecExcel == InitExcel /\ [][NextExcel]_vars

\* the rows with data below the header row
RowsBelowHeader ==
    IF x_data_rows = <<>> THEN 0 ELSE Len(x_data_rows) - 1

\* C23: when extract_excel_data has built a sheet's sheet_info, table_data
\* holds at most 100 rows, and has_more_rows is true exactly when the sheet
\* has more rows below its header row than table_data holds.
C23_HasMoreRowsExact ==
    x_pc = "returned" =>
        /\ Len(x_sheet_info.table_data) <= 100
        /\ x_sheet_info.has_more_rows <=>
              (RowsBelowHeader > Len(x_sheet_info.table_data))

===========================================================================
